---- MODULE Spec2Model ----
(***************************************************************************)
(* Model of the MCP client orchestration pipeline (src/client.ts, here     *)
(* src/unnamed/part_005): session registry, tool configuration tables,     *)
(* the two-phase model-call / tool-dispatch state machine of processQuery  *)
(* and the per-call sendResultToAI resolution.                             *)
(*                                                                         *)
(* Conventions.                                                            *)
(*  - A JavaScript string is a sequence of pieces (TLA+ strings);          *)
(*    concatenation is \o, so template literals and join() are computed.   *)
(*  - An optional value is a sequence of length 0 (undefined / null) or 1. *)
(*  - Names of servers and tools are sequences of single characters, so    *)
(*    that String.prototype.split('__') is computed on them.               *)
(***************************************************************************)
EXTENDS Integers, Sequences, FiniteSets, TLC

\* ---------------------------------------------------------------- bounds
\* Largest number of tool calls the model requests in one reply.
MaxCalls == 2

\* Largest number of server descriptors in the configured array.
MaxFleet == 3
\* Longest server or tool name given to the identifier helpers
MaxName == 2
\* Largest retry count given to fetchApi
MaxRetries == 3

\* ------------------------------------------------------------ option type
Undefined == <<>>
Some(x) == <<x>>
IsDefined(o) == Len(o) > 0
Get(o) == o[1]

\* typeof v === 'boolean' for an optional boolean field
IsBoolean(o) == IsDefined(o) /\ Get(o) \in BOOLEAN

\* JavaScript truthiness of an optional string ('' and undefined are falsy)
TruthyStr(o) == IsDefined(o) /\ Len(Get(o)) > 0

\* ------------------------------------------------------------------ names
ServerA == <<"a">>
ServerB == <<"b">>
ServerC == <<"c">>
Servers == {ServerA, ServerB}
ToolT == <<"t">>

\* createToolId: `${serverName}__${toolName}`
createToolId(serverName, toolName) == serverName \o <<"_", "_">> \o toolName

\* Index of the first occurrence of "__" in s at or after i, 0 when none.
RECURSIVE FindSep(_, _)
FindSep(s, i) ==
    IF i + 1 > Len(s) THEN 0
    ELSE IF s[i] = "_" /\ s[i + 1] = "_" THEN i
    ELSE FindSep(s, i + 1)

\* String.prototype.split('__'): all parts, left to right.
RECURSIVE Split(_)
Split(s) ==
    LET i == FindSep(s, 1)
    IN  IF i = 0 THEN <<s>>
        ELSE <<SubSeq(s, 1, i - 1)>> \o Split(SubSeq(s, i + 2, Len(s)))

\* const [serverName, toolName] = toolFullName.split('__')
SplitServerName(toolFullName) == Split(toolFullName)[1]
SplitToolName(toolFullName) ==
    LET parts == Split(toolFullName)
    IN  IF Len(parts) >= 2 THEN Some(parts[2]) ELSE Undefined

\* The tool identifiers the model collaborator may request.
ToolIds == {createToolId(s, ToolT) : s \in Servers}

\* ---------------------------------------------------------- configuration
TriState == {Undefined, Some(TRUE), Some(FALSE)}

\* createToolConfig(serverName, toolName, options): only the fields the
\* client reads.  saveOutput and sendResultToAI are defaulted by the factory.
createToolConfig(options) ==
    [ saveOutput      |-> IF IsDefined(options.saveOutput)
                          THEN options.saveOutput ELSE Some(TRUE),
      sendResultToAI  |-> IF IsDefined(options.sendResultToAI)
                          THEN options.sendResultToAI ELSE Some(FALSE),
      responseHandler |-> options.responseHandler ]

\* How one entry of the static tool table was written: as an object literal
\* of type ToolConfig (every field optional) or through createToolConfig
\* (as src/tool-configs/youtube/transcript.ts does, with a handler).
ToolEntrySpecs ==
    [via : {"literal"}, sendResultToAI : TriState, responseHandler : {FALSE}]
    \cup
    [via : {"factory"}, sendResultToAI : TriState, responseHandler : {TRUE}]

BuildToolConfig(e) ==
    IF e.via = "factory"
    THEN createToolConfig([saveOutput      |-> Undefined,
                           sendResultToAI  |-> e.sendResultToAI,
                           responseHandler |-> e.responseHandler])
    ELSE [saveOutput      |-> Undefined,
          sendResultToAI  |-> e.sendResultToAI,
          responseHandler |-> e.responseHandler]

\* A ServerConfig of mcp-server-config.ts: the fields the client reads
Descriptor(name, isOpen, sendResultToAI) ==
    [name |-> name, isOpen |-> isOpen, sendResultToAI |-> sendResultToAI]

\* The constructor: for (const cfg of config) this.serverConfigs.set(cfg.name, cfg)
ServerConfigsOf(list) ==
    [ n \in {list[i].name : i \in 1..Len(list)} |->
        LET last == CHOOSE i \in 1..Len(list) :
                       /\ list[i].name = n
                       /\ \A j \in 1..Len(list) : list[j].name = n => j <= i
        IN  [sendResultToAI |-> list[last].sendResultToAI] ]

\* A partial map is a function on a subset of the keys.
PartialMaps(K, V) == UNION {[D -> V] : D \in SUBSET K}
EmptyMap == [x \in {} |-> x]


\* ---------------------------------------------------------------- strings
\* Array.prototype.join("\n") on an array of strings
RECURSIVE Join(_)
Join(lines) ==
    IF Len(lines) = 0 THEN <<>>
    ELSE IF Len(lines) = 1 THEN lines[1]
    ELSE lines[1] \o <<"\n">> \o Join(Tail(lines))

\* Concatenation of an array of arrays (push(...xs) applied in order)
RECURSIVE Flatten(_)
Flatten(ss) == IF Len(ss) = 0 THEN <<>> ELSE Head(ss) \o Flatten(Tail(ss))

\* The first n characters: String.prototype.substring(0, n)
Substring0(s, n) == SubSeq(s, 1, IF Len(s) < n THEN Len(s) ELSE n)

\* Length of the preview of a handler's raw string content
PreviewLen == 100

\* ------------------------------------------------------- JavaScript values
\* A value is its type and its text; an object may carry the three fields
\* of a ToolResponse (JsUndefined where it has none).
JsValue(type, text) == [type |-> type, text |-> text]
JsUndefined == JsValue("undefined", <<>>)
JsNull == JsValue("null", <<>>)
JsString(text) == JsValue("string", text)
EmptyObject == JsValue("object", <<"{}">>)

\* typeof v
TypeOf(v) == IF v.type \in {"null", "array"} THEN "object" ELSE v.type

\* !v
Falsy(v) ==
    \/ v.type \in {"undefined", "null"}
    \/ v.type = "string" /\ v.text = <<>>
    \/ v.type = "number" /\ v.text = <<"0">>
    \/ v.type = "boolean" /\ v.text = <<"false">>

\* A value seen as a possible ToolResponse: reading a field it does not
\* have gives undefined
AsResponse(v) ==
    [ type |-> v.type, text |-> v.text, message |-> JsUndefined,
      paths |-> JsUndefined, rawContent |-> JsUndefined ]

\* The object {message, paths, rawContent}
ObjectWith(message, paths, rawContent) ==
    [ type |-> "object", text |-> <<>>, message |-> message, paths |-> paths,
      rawContent |-> rawContent ]

\* ------------------------------------------------- tool results and errors
\* result.content of a callTool reply: a plain string, or the protocol's
\* list of content items (an object).
ContentString == [type |-> "string", text |-> <<"r", "a", "w">>]
ContentObject == [type |-> "object", text |-> <<"r", "a", "w">>]
ToolContents == {ContentString, ContentObject}

\* JSON.stringify(content)
Stringify(content) ==
    IF content.type = "string"
    THEN <<"\"">> \o content.text \o <<"\"">>
    ELSE <<"[{\"type\":\"text\",\"text\":\"">> \o content.text \o <<"\"}]">>

\* JSON.stringify(content, null, 2)
StringifyPretty(content) ==
    IF content.type = "string"
    THEN <<"\"">> \o content.text \o <<"\"">>
    ELSE <<"[\n  {\n    \"type\": \"text\",\n    \"text\": \"">>
         \o content.text \o <<"\"\n  }\n]">>

\* Values a rejected promise can carry: an Error with a message, or a value
\* that is neither an Error nor a string.
ThrownError == [type |-> "Error", message |-> <<"boom">>]
ThrownOther == [type |-> "other", message |-> <<>>]
Thrown == {ThrownError, ThrownOther}

\* The error detail computed in the catch block of _executeAndProcessToolCall
\* and by _formatErrorMessage.
ErrorDetail(error) ==
    IF error.type = "Error" THEN error.message
    ELSE IF error.type = "string" THEN error.message
    ELSE <<"An unknown error occurred">>

\* Argument payloads of a tool call and JSON.parse on them
ArgsValid == <<"{", "}">>
ArgsInvalid == <<"{">>
ArgStrings == {ArgsValid, ArgsInvalid}
\* Mutant: every payload is taken as parsed
JsonParses_Lenient(s) == TRUE

JsonParses(s) == Len(s) = 2 /\ s[1] = "{" /\ s[2] = "}"

\* What a response handler can do with the content it is given.
\*   throws    the handler rejects
\*   null      it resolves to null (not an object)
\*   message   a ToolResponse with a non-empty message
\*   rawString a ToolResponse with no message and a string rawContent
HandlerOutcomes == {"throws", "null", "message", "rawString"}

HandlerResponse(h, content) ==
    IF h = "null" THEN AsResponse(JsNull)
    ELSE ObjectWith(IF h = "message" THEN JsString(<<"done">>) ELSE JsUndefined,
                    JsUndefined,
                    IF h = "rawString" THEN ContentString ELSE JsUndefined)

\* Mutant: the raw content is stored in serialized form
createToolResponse_Serialized(options) ==
    ObjectWith(
        IF Falsy(options.message) THEN JsString(<<>>) ELSE options.message,
        IF Falsy(options.paths) THEN EmptyObject ELSE options.paths,
        IF Falsy(options.rawContent) THEN JsNull
        ELSE JsString(<<"\"">> \o options.rawContent.text \o <<"\"">>))

\* createToolResponse(options): options.message || '', options.paths || {},
\* options.rawContent || null
createToolResponse(options) ==
    ObjectWith(
        IF Falsy(options.message) THEN JsString(<<>>) ELSE options.message,
        IF Falsy(options.paths) THEN EmptyObject ELSE options.paths,
        IF Falsy(options.rawContent) THEN JsNull ELSE options.rawContent)

\* The message of the response made for an input that is no object (in the
\* source a Chinese text, "invalid tool response")
InvalidResponseMessage == JsString(<<"invalid tool response">>)

\* validateToolResponse(response)
validateToolResponse(response) ==
    IF Falsy(response) \/ TypeOf(response) # "object"
    THEN createToolResponse([message    |-> InvalidResponseMessage,
                             paths      |-> JsUndefined,
                             rawContent |-> JsUndefined])
    ELSE createToolResponse(
           [message    |-> IF TypeOf(response.message) = "string"
                           THEN response.message ELSE JsString(<<>>),
            paths      |-> IF ~Falsy(response.paths)
                              /\ TypeOf(response.paths) = "object"
                           THEN response.paths ELSE EmptyObject,
            rawContent |-> IF response.rawContent # JsUndefined
                           THEN response.rawContent ELSE JsNull])


\* ------------------------------------------------------------------ state
VARIABLES
    toolTable,        \* the static table of tool-configs/index.ts (getToolConfigs)
    serverConfigs,    \* this.serverConfigs: server name -> ServerConfig
    toolConfigs,      \* this.toolConfigs: tool id -> ToolConfig
    sessions,         \* keys of this.sessions
    transports,       \* keys of this.transports
    pc,               \* position of processQuery: idle, ai1, tools, ai2, done
    messages,         \* the conversation of the running query
    request,          \* the chat-completion request in flight, if any
    finalOutputText,  \* accumulated user-facing lines
    exec,             \* one record per tool call of the first reply
    secondAiMessage,  \* the reply to the second model call, once it came
    result,           \* what processQuery settles with (returns or throws)
    modelCalls,       \* calls to _callAIForProcessing made by the query
    callLog,          \* the callTool requests the query has made, in order
    configList,       \* the descriptor array of mcp-server-config.ts
    connectLog,       \* the connectToServer calls of connectToAllServers
    connectedServers, \* what connectToAllServers settles with, until delivered
    closeLog,         \* the transport.close() calls of cleanup, until it returned
    closed,           \* registered names whose transport is already closed
    orphaned,         \* an open transport was replaced in the map, unclosed
    listLog,          \* the listTools calls behind the catalog in flight
    settleOrder,      \* the tool calls of the batch, in the order they settled
    applied,          \* a helper function applied on its own: input and output
    files,            \* FileSystemStorage: the files under the storage path
    metadataIndex,    \* FileSystemStorage.metadataIndex: path -> metadata
    initialized,      \* FileSystemStorage.initialized
    indexFile,        \* the content of outputs/metadata-index.json, if it exists
    lastSave,         \* the call of save that is returning: arguments, outcome
    other,            \* the locals of a second processQuery call, suspended
    running,          \* which of the two calls the query variables belong to
    fetching          \* ApiClient.fetchApi: the call in progress, if any

vars == <<toolTable, serverConfigs, toolConfigs, sessions, transports, pc,
          messages, request, finalOutputText, exec, secondAiMessage, result,
          modelCalls, callLog, configList, connectLog, connectedServers,
          closeLog, closed, orphaned, listLog, settleOrder, applied, files,
          metadataIndex, initialized, indexFile, lastSave, other, running,
          fetching>>

config == <<toolTable, serverConfigs, configList>>
fleet == <<connectLog, connectedServers>>
closing == <<closeLog, closed, orphaned>>
registry == <<sessions, transports>>
query == <<pc, messages, request, finalOutputText, exec, secondAiMessage,
           result, modelCalls, callLog, listLog, settleOrder>>
\* What the client's operations leave alone: the helper under test and the
\* file storage
storage == <<files, metadataIndex, initialized, indexFile, lastSave>>
suspended == <<other, running>>
apart == <<applied, storage, suspended, fetching>>

\* ---------------------------------------------------------------- messages
Message(role, content, tool_calls, tool_call_id, name) ==
    [ role |-> role, content |-> content, tool_calls |-> tool_calls,
      tool_call_id |-> tool_call_id, name |-> name ]

UserMessage(text) == Message("user", Some(text), Undefined, Undefined, Undefined)

QueryText == <<"q">>
AnswerText == <<"Paris is the capital of France.">>
SummaryText == <<"Summary: ...">>

CallIds == <<"1", "2", "3", "4">>
CallId(i) == <<"call_", CallIds[i]>>

\* The tool calls a reply may carry in position i
ToolCallsAt(i) ==
    [ id : {CallId(i)}, name : ToolIds, arguments : ArgStrings ]

\* Every batch of exactly n tool calls
RECURSIVE Batches(_)
Batches(n) ==
    IF n = 0 THEN {<<>>}
    ELSE {Append(b, c) : b \in Batches(n - 1), c \in ToolCallsAt(n)}

BatchesUpTo(n) == UNION {Batches(k) : k \in 0..n}

\* response.data.choices[0].message of a successful completion
AssistantMessages(contents, batches) ==
    { Message("assistant", c, tc, Undefined, Undefined) :
        c \in contents, tc \in {Undefined} \cup {Some(b) : b \in batches} }

\* Ways a model call fails inside _callAIForProcessing.
\*   thrown       the collaborator rejects with the value `thrown`
\*   notSuccess   response.success is false
\*   noData       response.data is missing
\*   noChoices    response.data.choices is missing
\*   emptyChoices response.data.choices is []
\* `error` is response.error, when the response has one.
ApiFailures ==
    [ kind   : {"notSuccess", "noData", "noChoices", "emptyChoices"},
      thrown : {Undefined},
      error  : {Undefined, Some(<<"HTTP 500">>)} ]
    \cup
    [ kind : {"thrown"}, thrown : {Some(t) : t \in Thrown}, error : {Undefined} ]

NoResult == [kind |-> "none", fullOutput |-> <<>>, finalAiResponse |-> Undefined]
Thrown_NotConnected ==
    [kind |-> "thrown", fullOutput |-> <<"Not connected to any server">>,
     finalAiResponse |-> Undefined]
\* Mutant: the summary is left out of the returned object
Returned_NoSummary(lines, finalAiContent) ==
    [kind |-> "returned", fullOutput |-> Join(lines),
     finalAiResponse |-> Undefined]

Returned(lines, finalAiContent) ==
    [kind |-> "returned", fullOutput |-> Join(lines),
     finalAiResponse |-> finalAiContent]


\* ------------------------------------------------------ policy resolution
\* getToolConfig(toolId): the entry of this.toolConfigs, if any
HasToolConfig(toolId) == toolId \in DOMAIN toolConfigs

\* serverConfig?.sendResultToAI ?? false
ServerDefault(serverName) ==
    IF serverName \in DOMAIN serverConfigs
       /\ IsDefined(serverConfigs[serverName].sendResultToAI)
    THEN Get(serverConfigs[serverName].sendResultToAI)
    ELSE FALSE

\* Mutant: the server default wins over the tool's own setting
ShouldSendToAI_ServerFirst(toolFullName) ==
    LET serverName == SplitServerName(toolFullName)
    IN  IF serverName \in DOMAIN serverConfigs
           /\ IsDefined(serverConfigs[serverName].sendResultToAI)
        THEN Get(serverConfigs[serverName].sendResultToAI)
        ELSE HasToolConfig(toolFullName)
             /\ IsBoolean(toolConfigs[toolFullName].sendResultToAI)
             /\ Get(toolConfigs[toolFullName].sendResultToAI)

\* shouldSendToAI of the success branch
ShouldSendToAI(toolFullName) ==
    IF HasToolConfig(toolFullName)
       /\ IsBoolean(toolConfigs[toolFullName].sendResultToAI)
    THEN Get(toolConfigs[toolFullName].sendResultToAI)
    ELSE ServerDefault(SplitServerName(toolFullName))

\* Mutant: the catch branch looks at the server default only
ShouldSendErrorToAI_ServerOnly(toolFullName) ==
    ServerDefault(SplitServerName(toolFullName))

\* shouldSendErrorToAI of the catch branch
ShouldSendErrorToAI(toolFullName) ==
    IF HasToolConfig(toolFullName)
       /\ IsBoolean(toolConfigs[toolFullName].sendResultToAI)
    THEN Get(toolConfigs[toolFullName].sendResultToAI)
    ELSE ServerDefault(SplitServerName(toolFullName))

\* ------------------------------------------------------- one tool call
\* Mutant: every message carries the id of the first call of a batch
ToolMessage_FirstId(toolCall, content) ==
    Message("tool", Some(content), Undefined, Some(CallId(1)), Some(toolCall.name))

ToolMessage(toolCall, content) ==
    Message("tool", Some(content), Undefined, Some(toolCall.id), Some(toolCall.name))

\* JSON.stringify({error: errorMessage})
StringifyError(errorMessage) == <<"{\"error\":\"">> \o errorMessage \o <<"\"}">>

\* One execution of _executeAndProcessToolCall.  shouldSend is the local
\* shouldSendToAI / shouldSendErrorToAI, undefined until it is computed.
ExecRecord(st, outcome, toolCall, content, lines, shouldSend, messageForAI) ==
    [ st |-> st, outcome |-> outcome, call |-> toolCall, content |-> content,
      outputMessages |-> lines, shouldSend |-> shouldSend,
      messageForAI |-> messageForAI ]

\* The synchronous prefix of _executeAndProcessToolCall: the session lookup
\* and the argument parse; the call is left awaiting session.callTool.
StartCall(toolCall) ==
    LET serverName == SplitServerName(toolCall.name)
    IN  IF serverName \notin sessions
        THEN ExecRecord("settled", "noSession", toolCall, Undefined,
                 << <<"[Error: Server ">> \o serverName \o <<" not found]">> >>,
                 Undefined, Undefined)
        ELSE IF ~JsonParses(toolCall.arguments)
        THEN ExecRecord("settled", "badArgs", toolCall, Undefined,
                 << <<"[Error: Invalid arguments for ">> \o toolCall.name \o <<"]">> >>,
                 Undefined, Undefined)
        ELSE ExecRecord("calling", "pending", toolCall, Undefined, <<>>,
                        Undefined, Undefined)

\* processToolResponse without a handler: the raw content as display text
DirectLines(content) ==
    IF content.type = "string" THEN << content.text >>
    ELSE << StringifyPretty(content) >>

\* processToolResponse with a handler whose outcome is h
HandlerLines(toolFullName, h, content) ==
    IF h = "throws"
    THEN << <<"[Error processing ">> \o toolFullName \o <<": ", "Error: boom", "]">> >>
    ELSE LET r == validateToolResponse(HandlerResponse(h, content))
         IN  IF Falsy(r.message) /\ ~Falsy(r.rawContent)
             THEN IF TypeOf(r.rawContent) = "string"
                  THEN << Substring0(r.rawContent.text, PreviewLen) \o <<"...">> >>
                  ELSE IF TypeOf(r.rawContent) = "object"
                  THEN << <<"Processing successful, structured data obtained">> >>
                  ELSE <<>>
             ELSE <<>>

HasHandler(toolFullName) ==
    HasToolConfig(toolFullName) /\ toolConfigs[toolFullName].responseHandler

\* The success path after processToolResponse returned `lines`
SettleOk(e, content, lines) ==
    ExecRecord("settled", "ok", e.call, Some(content), lines,
        Some(ShouldSendToAI(e.call.name)),
        IF ShouldSendToAI(e.call.name)
        THEN Some(ToolMessage(e.call, Stringify(content)))
        ELSE Undefined)

\* Mutant: the error text is sent as it is, not as an {error: ...} object
SettleFailed_PlainText(e, error) ==
    LET errorMessage == <<"[Error executing ">> \o e.call.name \o <<": ">>
                        \o ErrorDetail(error) \o <<"]">>
    IN  ExecRecord("settled", "failed", e.call, Undefined,
            Append(e.outputMessages, errorMessage),
            Some(ShouldSendErrorToAI(e.call.name)),
            IF ShouldSendErrorToAI(e.call.name)
            THEN Some(ToolMessage(e.call, errorMessage))
            ELSE Undefined)

\* The catch block
SettleFailed(e, error) ==
    LET errorMessage == <<"[Error executing ">> \o e.call.name \o <<": ">>
                        \o ErrorDetail(error) \o <<"]">>
    IN  ExecRecord("settled", "failed", e.call, Undefined,
            Append(e.outputMessages, errorMessage),
            Some(ShouldSendErrorToAI(e.call.name)),
            IF ShouldSendErrorToAI(e.call.name)
            THEN Some(ToolMessage(e.call, StringifyError(errorMessage)))
            ELSE Undefined)

\* Mutant: dispatch stops after the first call that cannot be started
RECURSIVE Dispatch_ShortCircuit(_)
Dispatch_ShortCircuit(toolCalls) ==
    IF Len(toolCalls) = 0 THEN <<>>
    ELSE LET e == StartCall(Head(toolCalls))
         IN  IF e.st = "settled" THEN <<e>>
             ELSE <<e>> \o Dispatch_ShortCircuit(Tail(toolCalls))

\* The calls whose promise is settled when map returns (no session, or
\* arguments that do not parse), in the order map made them
SettledAtDispatch(ex) ==
    Flatten([i \in 1..Len(ex) |-> IF ex[i].st = "settled" THEN <<i>> ELSE <<>>])

\* firstAiMessage.tool_calls.map(toolCall => this._executeAndProcessToolCall(toolCall))
Dispatch(toolCalls) == [i \in 1..Len(toolCalls) |-> StartCall(toolCalls[i])]

\* The request session.callTool({name: toolName, arguments: toolArgs}) makes
\* on the session of serverName, for tool call toolCall
CallToolRequest(toolCall) ==
    [ server    |-> SplitServerName(toolCall.name),
      name      |-> SplitToolName(toolCall.name),
      arguments |-> toolCall.arguments,
      call      |-> toolCall.id ]

\* Mutant: every invocation is made a second time
CallToolRequests_Retried(ex) ==
    Flatten([i \in 1..Len(ex) |->
        IF ex[i].st = "calling"
        THEN <<CallToolRequest(ex[i].call), CallToolRequest(ex[i].call)>>
        ELSE <<>>])

\* The invocations the dispatch of a batch made: one for each call that got
\* past the session lookup and the argument parse, in request order
CallToolRequests(ex) ==
    Flatten([i \in 1..Len(ex) |->
        IF ex[i].st = "calling" THEN <<CallToolRequest(ex[i].call)>> ELSE <<>>])

\* Mutant: the barrier is a race, it opens when any call has settled
AllSettled_AnyOne(ex) ==
    IF Len(ex) = 0 THEN TRUE ELSE \E i \in 1..Len(ex) : ex[i].st = "settled"

\* Mutant: the barrier waits for the first call only
AllSettled_FirstOnly(ex) == IF Len(ex) = 0 THEN TRUE ELSE ex[1].st = "settled"

\* Promise.all(toolExecutionPromises) is fulfilled
AllSettled(ex) == \A i \in 1..Len(ex) : ex[i].st = "settled"

\* toolExecutionResults.forEach: lines and model-bound messages, in order
OutputLinesOf(ex) == Flatten([i \in 1..Len(ex) |-> ex[i].outputMessages])

\* Mutant: the model-bound messages are collected as the calls settle
ToolMessagesOf_AsSettled(ex) ==
    Flatten([k \in 1..Len(settleOrder) |-> ex[settleOrder[k]].messageForAI])

ToolMessagesOf(ex) == Flatten([i \in 1..Len(ex) |-> ex[i].messageForAI])


\* ------------------------------------------------------------ tool catalog
\* response.tools of session.listTools() on a server
ServerTools(serverName) == { [name |-> ToolT, description |-> Some(<<"d">>)] }

\* One catalog entry of _getAvailableToolsFormatted
FormatTool(serverName, tool) ==
    [ name        |-> serverName \o <<"_", "_">> \o tool.name,
      description |-> <<"[">> \o serverName \o <<"] ">>
                      \o (IF IsDefined(tool.description)
                          THEN Get(tool.description) ELSE <<>>) ]

\* The session.listTools() calls of _getAvailableToolsFormatted, one per
\* session; the call rejects on the servers in `listFails`
ListToolsCalls(listFails) ==
    { [server |-> s, ok |-> s \notin listFails] : s \in sessions }

\* Mutant: one failed listing discards the whole catalog
AvailableTools_AllOrNothing(listedOk) ==
    IF listedOk # sessions THEN {}
    ELSE UNION { { FormatTool(s, t) : t \in ServerTools(s) } : s \in listedOk }

\* The catalog when listTools succeeded on the servers in `listedOk`: a
\* failure is caught and logged inside the loop, and the loop goes on
AvailableTools(listedOk) ==
    UNION { { FormatTool(s, t) : t \in ServerTools(s) } : s \in listedOk }

\* The request _callAIForProcessing(messages, tools) sends; `tools` is
\* optional and is only passed on when it is a non-empty list.
SystemPrompt ==
    Message("system", Some(<<"You are a helpful assistant ...">>),
            Undefined, Undefined, Undefined)

BuildRequest(msgs, tools) ==
    [ messages    |-> <<SystemPrompt>> \o msgs,
      tools       |-> IF IsDefined(tools) /\ Get(tools) # {} THEN tools ELSE Undefined,
      tool_choice |-> IF IsDefined(tools) /\ Get(tools) # {}
                      THEN Some("auto") ELSE Undefined ]

\* Mutant: the second call offers the catalog again
SecondCallTools_Catalog == Some(AvailableTools(sessions))

\* The `tools` argument of the second call, this._callAIForProcessing(messages):
\* it is left out.
SecondCallTools == Undefined

\* The Error the catch block of _callAIForProcessing throws.  A bad response
\* is turned into an Error inside the try block, so it goes through the same
\* catch as a rejection of the collaborator.
AiCallError(failure) ==
    LET error ==
          IF failure.kind = "thrown" THEN Get(failure.thrown)
          ELSE [type    |-> "Error",
                message |-> IF TruthyStr(failure.error) THEN Get(failure.error)
                            ELSE <<"AI API call failed or returned invalid response">>]
    IN  [type    |-> "Error",
         message |-> IF error.type \in {"Error", "string"}
                     THEN <<"AI API call failed: ">> \o error.message
                     ELSE <<"AI API call failed with an unknown error">>]

\* _formatErrorMessage(error)
FormatErrorMessage(error) ==
    IF error.type \in {"Error", "string", "objectWithMessage"} THEN error.message
    ELSE <<"An unknown error occurred">>

\* The line the catch block of processQuery pushes
QueryErrorLine(failure) ==
    <<"Error processing query: ">> \o FormatErrorMessage(AiCallError(failure))

\* Mutant: the guard of processQuery never rejects
NoSessions_Never == FALSE

\* this.sessions.size === 0
NoSessions == Cardinality(sessions) = 0

\* ---------------------------------------------------------------- actions
\* The callers (cli.ts, the demo) await every client operation before they
\* start the next, so initialize, connectToServer, cleanup and processQuery
\* start only while no query is running (pc = "idle").
\* initialize(): loadToolConfigs copies the static table into this.toolConfigs
initialize ==
    /\ pc = "idle"
    /\ toolConfigs' =
         [ id \in DOMAIN toolConfigs \cup DOMAIN toolTable |->
             IF id \in DOMAIN toolTable THEN BuildToolConfig(toolTable[id])
             ELSE toolConfigs[id] ]
    /\ UNCHANGED <<config, apart, fleet, closing, registry, query>>

\* this.transports.set(name, transport) for every successful entry of `log`
\* in turn, `open` being the names whose transport in the map is open: the
\* names for which a set replaces a transport that is open.  The replaced
\* transport is not closed and no reference to it is kept.
Replaced(log, open) ==
    { log[k].name : k \in
        { k \in 1..Len(log) :
            /\ log[k].ok
            /\ \/ log[k].name \in open
               \/ \E j \in 1..(k - 1) :
                    log[j].ok /\ log[j].name = log[k].name } }

\* Mutant: a name is registered before its handshake, whether or not it
\* then succeeds
Registered_Attempted(log) == {log[k].name : k \in 1..Len(log)}

\* The names the connectToServer calls of `log` have set in the two maps:
\* those of the calls that got past client.connect(transport)
Registered(log) == {log[k].name : k \in {j \in 1..Len(log) : log[j].ok}}

\* connectToServer(serverConfig): on success both maps get the name; a
\* failure (bad descriptor, handshake error) throws before either is set.
\* The transport registered under the name is a new, open one.
connectToServer(name, ok) ==
    /\ pc = "idle"
    /\ LET log == <<[name |-> name, ok |-> ok]>>
       IN  /\ sessions' = sessions \cup Registered(log)
           /\ transports' = transports \cup Registered(log)
           /\ closed' = closed \ Registered(log)
           /\ orphaned' = (orphaned \/ Replaced(log, transports \ closed) # {})
    /\ UNCHANGED <<config, apart, fleet, closeLog, toolConfigs, query>>

\* The orders in which a loop can visit the entries of a Map with keys S.
\* (A Map is visited in the order of first insertion, which the key set
\* does not record: every order is considered.)
VisitOrders(S) ==
    { o \in [1..Cardinality(S) -> S] :
        \A i, j \in 1..Cardinality(S) : i # j => o[i] # o[j] }

\* for (const transport of this.transports.values()) await transport.close():
\* the transports are closed in the order `order`; close number failAt
\* throws (0: none does), which ends the loop, there being no try/catch.
CloseAll(order, failAt) ==
    [ log   |-> [i \in 1..(IF failAt = 0 THEN Len(order) ELSE failAt) |->
                   [name |-> order[i], ok |-> i # failAt]],
      threw |-> failAt # 0 ]

\* Mutant: the maps are not cleared
Cleared_Kept(map, threw) == map

\* this.transports.clear() / this.sessions.clear(), which a throwing close
\* leaves unreached
Cleared(map, threw) == IF threw THEN map ELSE {}

\* this.sessions.size > 0
hasActiveSessions == Cardinality(sessions) > 0

\* Mutant: only the transport map is cleared
cleanup_TransportsOnly(order, failAt) ==
    /\ pc = "idle"
    /\ LET r == CloseAll(order, failAt)
           done == {r.log[i].name : i \in {k \in 1..Len(r.log) : r.log[k].ok}}
       IN  /\ closeLog' = r.log
           /\ transports' = Cleared(transports, r.threw)
           /\ closed' = (closed \cup done) \cap transports'
    /\ pc' = "cleaned"
    /\ UNCHANGED <<config, apart, fleet, orphaned, toolConfigs, messages, request,
                   finalOutputText, exec, secondAiMessage, result, modelCalls,
                   callLog, listLog, settleOrder, sessions>>

\* cleanup()
cleanup(order, failAt) ==
    /\ pc = "idle"
    /\ LET r == CloseAll(order, failAt)
           done == {r.log[i].name : i \in {k \in 1..Len(r.log) : r.log[k].ok}}
       IN  /\ closeLog' = r.log
           /\ transports' = Cleared(transports, r.threw)
           /\ sessions' = Cleared(sessions, r.threw)
           /\ closed' = (closed \cup done) \cap transports'
    /\ pc' = "cleaned"
    /\ UNCHANGED <<config, apart, fleet, orphaned, toolConfigs, messages, request,
                   finalOutputText, exec, secondAiMessage, result, modelCalls,
                   callLog, listLog, settleOrder>>

\* The caller's await of cleanup resumes (or its catch block runs)
CleanupReturns ==
    /\ pc = "cleaned"
    /\ pc' = "idle"
    /\ closeLog' = <<>>
    /\ UNCHANGED <<config, apart, fleet, closed, orphaned, toolConfigs, registry,
                   messages, request, finalOutputText, exec, secondAiMessage,
                   result, modelCalls, callLog, listLog, settleOrder>>

\* config.filter(cfg => cfg.isOpen)
IsOpen(cfg) == cfg.isOpen
OpenServers == SelectSeq(configList, IsOpen)

\* Mutant: the loop has no try/catch, the first failure ends it
RECURSIVE ConnectAll_StopAtFailure(_, _, _)
ConnectAll_StopAtFailure(openServers, oks, i) ==
    IF i > Len(openServers)
    THEN [log |-> <<>>, connected |-> <<>>, threw |-> FALSE]
    ELSE IF ~oks[i]
    THEN [log |-> <<[name |-> openServers[i].name, ok |-> FALSE]>>,
          connected |-> <<>>, threw |-> TRUE]
    ELSE LET rest == ConnectAll_StopAtFailure(openServers, oks, i + 1)
         IN  [ log       |-> <<[name |-> openServers[i].name, ok |-> TRUE]>> \o rest.log,
               connected |-> IF rest.threw THEN <<>>
                             ELSE <<openServers[i].name>> \o rest.connected,
               threw     |-> rest.threw ]

\* The loop of connectToAllServers from descriptor i on: connectToServer is
\* awaited for each open descriptor, succeeds where oks says so, and a failure
\* is caught and logged.
RECURSIVE ConnectAll(_, _, _)
ConnectAll(openServers, oks, i) ==
    IF i > Len(openServers)
    THEN [log |-> <<>>, connected |-> <<>>, threw |-> FALSE]
    ELSE LET rest == ConnectAll(openServers, oks, i + 1)
         IN  [ log       |-> <<[name |-> openServers[i].name, ok |-> oks[i]]>> \o rest.log,
               connected |-> (IF oks[i] THEN <<openServers[i].name>> ELSE <<>>)
                             \o rest.connected,
               threw     |-> rest.threw ]

\* connectToAllServers(): the sessions and transports of the descriptors that
\* connected are registered, and the call settles with their names.
connectToAllServers(oks) ==
    /\ pc = "idle"
    /\ LET r == ConnectAll(OpenServers, oks, 1)
           registered == Registered(r.log)
       IN  /\ connectLog' = r.log
           /\ connectedServers' =
                Some([kind  |-> IF r.threw THEN "thrown" ELSE "returned",
                      names |-> r.connected])
           /\ sessions' = sessions \cup registered
           /\ transports' = transports \cup registered
           /\ closed' = closed \ registered
           /\ orphaned' =
                (orphaned \/ Replaced(r.log, transports \ closed) # {})
    /\ pc' = "connected"
    /\ UNCHANGED <<config, apart, closeLog, toolConfigs, messages, request,
                   finalOutputText, exec, secondAiMessage, result, modelCalls,
                   callLog, listLog, settleOrder>>

\* The caller's await of connectToAllServers resumes with the names
ConnectReturns ==
    /\ pc = "connected"
    /\ pc' = "idle"
    /\ connectLog' = <<>>
    /\ connectedServers' = Undefined
    /\ UNCHANGED <<config, apart, closing, toolConfigs, registry, messages,
                   request, finalOutputText, exec, secondAiMessage, result,
                   modelCalls, callLog, listLog, settleOrder>>

\* processQuery with no session: throws before anything else happens
ProcessQueryRejected ==
    /\ pc = "idle"
    /\ NoSessions
    /\ result' = Thrown_NotConnected
    /\ pc' = "done"
    /\ UNCHANGED <<config, apart, fleet, closing,
                   toolConfigs, registry, messages, request,
                   finalOutputText, exec, secondAiMessage, modelCalls,
                   callLog, listLog, settleOrder>>

\* processQuery up to the first await of the model: the conversation is
\* seeded, the catalog is fetched (listTools fails on `listFails`) and the
\* first request is sent.
ProcessQuery(listFails) ==
    /\ pc = "idle"
    /\ ~NoSessions
    /\ messages' = <<UserMessage(QueryText)>>
    /\ finalOutputText' = <<>>
    /\ exec' = <<>>
    /\ secondAiMessage' = Undefined
    /\ result' = NoResult
    /\ listLog' = ListToolsCalls(listFails)
    /\ settleOrder' = <<>>
    /\ request' = Some(BuildRequest(messages',
                                    Some(AvailableTools(sessions \ listFails))))
    /\ callLog' = <<>>
    /\ modelCalls' = 1
    /\ pc' = "ai1"
    /\ UNCHANGED <<config, apart, fleet, closing,
                   toolConfigs, registry>>

\* Mutant: the catch block lets the error escape
CatchAndReturn_Rethrow(failure) ==
    /\ finalOutputText' = finalOutputText
    /\ result' = [kind |-> "thrown", fullOutput |-> AiCallError(failure).message,
                  finalAiResponse |-> Undefined]
    /\ request' = Undefined
    /\ pc' = "done"

\* The catch block of processQuery
CatchAndReturn(failure) ==
    /\ finalOutputText' = Append(finalOutputText, QueryErrorLine(failure))
    /\ result' = Returned(finalOutputText', Undefined)
    /\ request' = Undefined
    /\ pc' = "done"

\* The first model call fails.  (The listing outcomes are local to
\* _getAvailableToolsFormatted and the catalog is last read by the first
\* request: both are dropped when that call settles.)
AiFirstFails(failure) ==
    /\ pc = "ai1"
    /\ CatchAndReturn(failure)
    /\ listLog' = {}
    /\ UNCHANGED <<config, apart, fleet, closing,
                   toolConfigs, registry, messages, exec,
                   secondAiMessage, modelCalls, callLog, settleOrder>>

\* Mutant: the reply is put in front of the conversation
Pushed_InFront(msgs, m) == <<m>> \o msgs

\* messages.push(firstAiMessage)
Pushed(msgs, m) == Append(msgs, m)

\* The first model call returns message m
AiFirstReply(m) ==
    /\ pc = "ai1"
    /\ messages' = Pushed(messages, m)
    /\ request' = Undefined
    /\ finalOutputText' =
         IF TruthyStr(m.content) /\ ~IsDefined(m.tool_calls)
         THEN Append(finalOutputText, Get(m.content))
         ELSE finalOutputText
    /\ IF IsDefined(m.tool_calls)
       THEN /\ exec' = Dispatch(Get(m.tool_calls))
            /\ callLog' = callLog \o CallToolRequests(exec')
            /\ settleOrder' = SettledAtDispatch(exec')
            /\ pc' = "tools"
            /\ UNCHANGED result
       ELSE /\ result' = Returned(finalOutputText', Undefined)
            /\ pc' = "done"
            /\ UNCHANGED <<exec, callLog, settleOrder>>
    /\ listLog' = {}
    /\ UNCHANGED <<config, apart, fleet, closing,
                   toolConfigs, registry, secondAiMessage, modelCalls>>

\* session.callTool of call i resolves with `content`
CallToolReturns(i, content) ==
    /\ pc = "tools"
    /\ i \in 1..Len(exec)
    /\ exec[i].st = "calling"
    /\ exec' = [exec EXCEPT ![i] =
         IF HasHandler(exec[i].call.name)
         THEN [exec[i] EXCEPT !.st = "handling", !.content = Some(content)]
         ELSE SettleOk(exec[i], content, DirectLines(content))]
    /\ settleOrder' = IF HasHandler(exec[i].call.name) THEN settleOrder
                       ELSE Append(settleOrder, i)
    /\ UNCHANGED <<config, apart, fleet, closing,
                   toolConfigs, registry, pc, messages, request,
                   finalOutputText, secondAiMessage, result, modelCalls,
                   callLog, listLog>>

\* session.callTool of call i rejects with `error`
CallToolThrows(i, error) ==
    /\ pc = "tools"
    /\ i \in 1..Len(exec)
    /\ exec[i].st = "calling"
    /\ exec' = [exec EXCEPT ![i] = SettleFailed(exec[i], error)]
    /\ settleOrder' = Append(settleOrder, i)
    /\ UNCHANGED <<config, apart, fleet, closing,
                   toolConfigs, registry, pc, messages, request,
                   finalOutputText, secondAiMessage, result, modelCalls,
                   callLog, listLog>>

\* Mutant: a handler that throws makes the call fail like an invocation error
HandlerSettles_ThrowFails(i, h) ==
    /\ pc = "tools"
    /\ i \in 1..Len(exec)
    /\ exec[i].st = "handling"
    /\ exec' = [exec EXCEPT ![i] =
         IF h = "throws" THEN SettleFailed(exec[i], ThrownError)
         ELSE SettleOk(exec[i], Get(exec[i].content),
                       HandlerLines(exec[i].call.name, h, Get(exec[i].content)))]
    /\ settleOrder' = Append(settleOrder, i)
    /\ UNCHANGED <<config, apart, fleet, closing,
                   toolConfigs, registry, pc, messages, request,
                   finalOutputText, secondAiMessage, result, modelCalls,
                   callLog, listLog>>

\* The response handler of call i settles with outcome h
HandlerSettles(i, h) ==
    /\ pc = "tools"
    /\ i \in 1..Len(exec)
    /\ exec[i].st = "handling"
    /\ exec' = [exec EXCEPT ![i] =
         SettleOk(exec[i], Get(exec[i].content),
                  HandlerLines(exec[i].call.name, h, Get(exec[i].content)))]
    /\ settleOrder' = Append(settleOrder, i)
    /\ UNCHANGED <<config, apart, fleet, closing,
                   toolConfigs, registry, pc, messages, request,
                   finalOutputText, secondAiMessage, result, modelCalls,
                   callLog, listLog>>

\* Mutant: the second call is made whenever tools were dispatched
NeedsSecondCall_Always(toolMessagesForAI) == TRUE

\* if (toolMessagesForAI.length > 0)
NeedsSecondCall(toolMessagesForAI) == Len(toolMessagesForAI) > 0

\* Promise.all resolves: results are collected and either the second model
\* call is sent (without tools) or the query returns.
Aggregate ==
    /\ pc = "tools"
    /\ AllSettled(exec)
    /\ finalOutputText' = finalOutputText \o OutputLinesOf(exec)
    /\ LET toolMessagesForAI == ToolMessagesOf(exec)
       IN  IF NeedsSecondCall(toolMessagesForAI)
           THEN /\ messages' = messages \o toolMessagesForAI
                /\ request' = Some(BuildRequest(messages', SecondCallTools))
                /\ modelCalls' = modelCalls + 1
                /\ pc' = "ai2"
                /\ UNCHANGED result
           ELSE /\ result' = Returned(finalOutputText', Undefined)
                /\ pc' = "done"
                /\ UNCHANGED <<messages, request, modelCalls>>
    /\ UNCHANGED <<config, apart, fleet, closing,
                   toolConfigs, registry, exec, secondAiMessage,
                   callLog, listLog, settleOrder>>

\* Mutant: a failed second call also drops the sessions
AiSecondFails_ClearsRegistry(failure) ==
    /\ pc = "ai2"
    /\ CatchAndReturn(failure)
    /\ sessions' = {}
    /\ transports' = {}
    /\ UNCHANGED <<config, apart, fleet, closing,
                   toolConfigs, messages, exec,
                   secondAiMessage, modelCalls, callLog, listLog, settleOrder>>

\* The second model call fails
AiSecondFails(failure) ==
    /\ pc = "ai2"
    /\ CatchAndReturn(failure)
    /\ UNCHANGED <<config, apart, fleet, closing,
                   toolConfigs, registry, messages, exec,
                   secondAiMessage, modelCalls, callLog, listLog, settleOrder>>

\* Mutant: the summary is stored whether or not it has content
FinalAiContent_Unchecked(m) == m.content

\* finalAiContent after the second reply m: set only if (secondAiMessage.content)
FinalAiContent(m) == IF TruthyStr(m.content) THEN m.content ELSE Undefined

\* The second model call returns message m
AiSecondReply(m) ==
    /\ pc = "ai2"
    /\ request' = Undefined
    /\ secondAiMessage' = Some(m)
    /\ finalOutputText' =
         IF TruthyStr(m.content)
         THEN finalOutputText \o << <<"\n[AI Summary]:">>, Get(m.content) >>
         ELSE finalOutputText
    /\ result' = Returned(finalOutputText', FinalAiContent(m))
    /\ pc' = "done"
    /\ UNCHANGED <<config, apart, fleet, closing,
                   toolConfigs, registry, messages, exec, modelCalls,
                   callLog, listLog, settleOrder>>

\* The caller's await of processQuery resumes with the result (or the
\* error); the locals of the call are gone.
Deliver ==
    /\ pc = "done"
    /\ pc' = "idle"
    /\ messages' = <<>>
    /\ request' = Undefined
    /\ finalOutputText' = <<>>
    /\ exec' = <<>>
    /\ secondAiMessage' = Undefined
    /\ result' = NoResult
    /\ modelCalls' = 0
    /\ callLog' = <<>>
    /\ listLog' = {}
    /\ settleOrder' = <<>>
    /\ UNCHANGED <<config, apart, fleet, closing,
                   toolConfigs, registry>>

\* ------------------------------------------ helpers applied on their own
\* A helper function is applied to the input in `applied`, once; nothing
\* else happens in these steps.
OnlyApplied ==
    UNCHANGED <<config, fleet, closing, toolConfigs, registry, query, storage,
                suspended, fetching>>

\* A tool of server applied.arg[1] named applied.arg[2] is published under
\* its identifier and the dispatcher routes a call of that identifier.
RouteToolId ==
    /\ applied.fn = "route"
    /\ ~IsDefined(applied.out)
    /\ LET id == createToolId(applied.arg[1], applied.arg[2])
       IN  applied' = [applied EXCEPT !.out =
               Some([ id         |-> id,
                      serverName |-> SplitServerName(id),
                      toolName   |-> SplitToolName(id) ])]
    /\ OnlyApplied

\* validateToolResponse is applied to applied.arg, and then once more to
\* what it returned
Validate ==
    /\ applied.fn = "validate"
    /\ Len(applied.out) < 2
    /\ applied' = [applied EXCEPT !.out =
         IF Len(applied.out) = 0
         THEN <<validateToolResponse(applied.arg)>>
         ELSE Append(applied.out, validateToolResponse(applied.out[1]))]
    /\ OnlyApplied

\* Object.fromEntries(Object.entries(process.env).filter(([_, v]) => v !== undefined))
BaseEnv(processEnv) ==
    [ k \in {x \in DOMAIN processEnv : IsDefined(processEnv[x])} |-> processEnv[k] ]

\* Mutant: a key of both objects keeps the value of the first
Spread_FirstWins(first, second) ==
    [ k \in DOMAIN first \cup DOMAIN second |->
        IF k \in DOMAIN first THEN first[k] ELSE second[k] ]

\* {...first, ...second}
Spread(first, second) ==
    [ k \in DOMAIN first \cup DOMAIN second |->
        IF k \in DOMAIN second THEN second[k] ELSE first[k] ]

\* mergedEnv of createCommandTransport
MergedEnv(processEnv, serverEnv) ==
    Spread(BaseEnv(processEnv),
           IF IsDefined(serverEnv) THEN Get(serverEnv) ELSE EmptyMap)

\* createCommandTransport computes the environment of the spawned process
\* from process.env and serverConfig.env
MergeEnv ==
    /\ applied.fn = "env"
    /\ ~IsDefined(applied.out)
    /\ applied' = [applied EXCEPT !.out =
         Some(MergedEnv(applied.arg.processEnv, applied.arg.serverEnv))]
    /\ OnlyApplied

\* ----------------------------------------------------------- fetchApi
\* ApiClient.fetchApi(url, options, retries) (src/api/ApiClient.ts).  The
\* variable `fetching` holds the locals of the call: the loop counter, the
\* last error, and `log`, the outcome of every fetch attempt made so far.
NoFetch ==
    [ pc |-> "none", retries |-> 0, attempt |-> 0, log |-> <<>>,
      lastError |-> Undefined, result |-> Undefined ]

\* return {success: true, data, raw: response}
SuccessResponse(data) ==
    [ kind |-> "returned", success |-> TRUE, data |-> Some(data),
      error |-> Undefined, raw |-> Undefined ]

\* Mutant: when the attempts are used up the last error is thrown
FailureResponse_Thrown(lastError) ==
    [ kind |-> "thrown", success |-> FALSE, data |-> Undefined,
      error |-> Undefined, raw |-> lastError ]

\* return {success: false, error: lastError?.message || '...', raw: lastError}
FailureResponse(lastError) ==
    [ kind |-> "returned", success |-> FALSE, data |-> Undefined,
      error |-> IF IsDefined(lastError) /\ Get(lastError).message # <<>>
                THEN Some(Get(lastError).message)
                ELSE Some(<<"unknown error">>),
      raw |-> lastError ]

FetchOnly ==
    UNCHANGED <<config, applied, storage, suspended, fleet, closing,
                toolConfigs, registry, query>>

\* fetchApi is called: the loop is entered and the first fetch is made, or,
\* with a negative count, the loop is skipped
fetchApi(retries) ==
    /\ fetching.pc = "none"
    /\ fetching' =
         IF 0 <= retries
         THEN [NoFetch EXCEPT !.pc = "attempting", !.retries = retries]
         ELSE [NoFetch EXCEPT !.pc = "returned", !.retries = retries,
                              !.result = Some(FailureResponse(Undefined))]
    /\ FetchOnly

\* The attempt in flight succeeds: fetch resolves with an ok response and
\* response.json() resolves with `data`
AttemptSucceeds(data) ==
    /\ fetching.pc = "attempting"
    /\ fetching' =
         [fetching EXCEPT !.pc = "returned",
                          !.log = Append(@, [ok |-> TRUE, error |-> Undefined]),
                          !.result = Some(SuccessResponse(data))]
    /\ FetchOnly

\* The attempt in flight fails with `error` (fetch rejects, the response is
\* not ok, or response.json() rejects): the catch block keeps the error and
\* either leaves the loop or, after the backoff delay, fetches again
AttemptFails(error) ==
    /\ fetching.pc = "attempting"
    /\ fetching' =
         IF fetching.attempt = fetching.retries
         THEN [fetching EXCEPT
                 !.pc = "returned",
                 !.log = Append(@, [ok |-> FALSE, error |-> Some(error)]),
                 !.lastError = Some(error),
                 !.result = Some(FailureResponse(Some(error)))]
         ELSE [fetching EXCEPT
                 !.attempt = @ + 1,
                 !.log = Append(@, [ok |-> FALSE, error |-> Some(error)]),
                 !.lastError = Some(error)]
    /\ FetchOnly

\* The caller's await of fetchApi resumes
FetchReturns ==
    /\ fetching.pc = "returned"
    /\ fetching' = NoFetch
    /\ FetchOnly

\* -------------------------------------------------------- file storage
\* FileSystemStorage (src/storage/FileSystemStorage.ts).  Paths are
\* sequences of pieces; tag arrays are sets, as they are only searched with
\* includes().
\* getStoragePath(): join(process.cwd(), this.basePath)
StoragePath == <<"/cwd", "/outputs">>

\* join(this.getStoragePath(), filename)
FilePath(filename) == StoragePath \o <<"/">> \o filename

\* The text written for `content`: a string as it is, another value as
\* JSON.stringify(content, null, 2)
FileContent(content) ==
    IF content.type = "string" THEN content.text ELSE StringifyPretty(content)

\* Mutant: the entry is recorded when metadata or tags are given
RecordsEntry_MetadataOrTags(options) ==
    IsDefined(options.metadata) \/ IsDefined(options.tags)

\* if (options.metadata): whether save records an entry in the index
RecordsEntry(options) == IsDefined(options.metadata)

\* The entry save records: the metadata, a timestamp and the tags
IndexEntry(options) ==
    [ metadata  |-> Get(options.metadata),
      timestamp |-> <<"now">>,
      tags      |-> IF IsDefined(options.tags) THEN Get(options.tags) ELSE {} ]

\* loadMetadataIndex(), as initialize() calls it the first time the storage
\* is used: the index file, when there is one, replaces the index
LoadedIndex == IF IsDefined(indexFile) THEN Get(indexFile) ELSE metadataIndex

\* findByTags(tags): the paths whose recorded tags include every given tag
findByTags(tags) ==
    { filepath \in DOMAIN metadataIndex : tags \subseteq metadataIndex[filepath].tags }

\* getMetadata(filename)
getMetadata(filename) ==
    IF FilePath(filename) \in DOMAIN metadataIndex
    THEN Some(metadataIndex[FilePath(filename)]) ELSE Undefined

SaveRecord(filename, content, options, outcome, path) ==
    [ filename |-> filename, content |-> content, options |-> options,
      outcome |-> outcome, path |-> path ]

\* Mutant: an absent overwrite option is taken as false
KeepsExisting_UnlessTrue(filepath, options) ==
    filepath \in DOMAIN files /\ options.overwrite # Some(TRUE)

\* existsSync(filepath) && options.overwrite === false
KeepsExisting(filepath, options) ==
    filepath \in DOMAIN files /\ options.overwrite = Some(FALSE)

StorageOnly ==
    UNCHANGED <<config, applied, fleet, closing, toolConfigs, registry, query,
                suspended, fetching>>

\* save(filename, content, options).  writeOk: writeFile of the file
\* succeeds (else save throws); indexOk: writeFile of the index succeeds
\* (else saveMetadataIndex logs the error and returns).
save(filename, content, options, writeOk, indexOk) ==
    /\ ~IsDefined(lastSave)
    /\ initialized' = TRUE
    /\ LET index == IF initialized THEN metadataIndex ELSE LoadedIndex
           filepath == FilePath(filename)
       IN  IF KeepsExisting(filepath, options)
           THEN /\ lastSave' = Some(SaveRecord(filename, content, options,
                                               "returned", Some(filepath)))
                /\ metadataIndex' = index
                /\ UNCHANGED <<files, indexFile>>
           ELSE IF ~writeOk
           THEN /\ lastSave' = Some(SaveRecord(filename, content, options,
                                               "thrown", Undefined))
                /\ metadataIndex' = index
                /\ UNCHANGED <<files, indexFile>>
           ELSE /\ files' = [ f \in DOMAIN files \cup {filepath} |->
                                IF f = filepath THEN FileContent(content)
                                ELSE files[f] ]
                /\ metadataIndex' =
                     IF RecordsEntry(options)
                     THEN [ f \in DOMAIN index \cup {filepath} |->
                              IF f = filepath THEN IndexEntry(options)
                              ELSE index[f] ]
                     ELSE index
                /\ indexFile' = IF RecordsEntry(options) /\ indexOk
                                THEN Some(metadataIndex') ELSE indexFile
                /\ lastSave' = Some(SaveRecord(filename, content, options,
                                               "returned", Some(filepath)))
    /\ StorageOnly

\* The caller's await of save resumes
SaveReturns ==
    /\ IsDefined(lastSave)
    /\ lastSave' = Undefined
    /\ UNCHANGED <<files, metadataIndex, initialized, indexFile>>
    /\ StorageOnly

\* The process ends and a new one starts: the files stay, the storage
\* object is a new one
Restart ==
    /\ ~IsDefined(lastSave)
    /\ initialized
    /\ metadataIndex' = EmptyMap
    /\ initialized' = FALSE
    /\ UNCHANGED <<files, indexFile, lastSave>>
    /\ StorageOnly

\* A position of processQuery (not one of connecting or cleaning up)
InFlight(p) == p \in {"idle", "ai1", "tools", "ai2", "done"}

\* ---------------------------------------------------- two calls at once
\* processQuery keeps its state in locals (messages, finalOutputText,
\* finalAiContent, the promises of the batch): a second call made while the
\* first is suspended at an await has locals of its own.  The query
\* variables hold the locals of the call whose continuation runs next,
\* `other` those of the call that is suspended meanwhile.
Locals ==
    [ pc |-> pc, messages |-> messages, request |-> request,
      finalOutputText |-> finalOutputText, exec |-> exec,
      secondAiMessage |-> secondAiMessage, result |-> result,
      modelCalls |-> modelCalls, callLog |-> callLog, listLog |-> listLog,
      settleOrder |-> settleOrder ]

\* The locals of a call that has not been made
NotCalled ==
    [ pc |-> "idle", messages |-> <<>>, request |-> Undefined,
      finalOutputText |-> <<>>, exec |-> <<>>, secondAiMessage |-> Undefined,
      result |-> NoResult, modelCalls |-> 0, callLog |-> <<>>, listLog |-> {},
      settleOrder |-> <<>> ]

\* Mutant: the trace is a field of the client, shared by the two calls
Resumed_SharedTrace(own, current) ==
    [own EXCEPT !.finalOutputText = current.finalOutputText]

\* What a continuation finds in its locals when it runs: what its own call
\* left there, whatever the call that ran meanwhile (`current`) has done
Resumed(own, current) == own

\* The event loop runs a continuation of the other call next
Switch ==
    /\ InFlight(pc) /\ InFlight(other.pc)
    /\ other' = Locals
    /\ running' = 3 - running
    /\ LET mine == Resumed(other, Locals)
       IN  /\ pc' = mine.pc
           /\ messages' = mine.messages
           /\ request' = mine.request
           /\ finalOutputText' = mine.finalOutputText
           /\ exec' = mine.exec
           /\ secondAiMessage' = mine.secondAiMessage
           /\ result' = mine.result
           /\ modelCalls' = mine.modelCalls
           /\ callLog' = mine.callLog
           /\ listLog' = mine.listLog
           /\ settleOrder' = mine.settleOrder
    /\ UNCHANGED <<config, applied, storage, fetching, fleet, closing,
                   toolConfigs, registry>>

\* ------------------------------------------------------------ environment
FirstContents == {Undefined, Some(<<>>), Some(AnswerText)}
ToolReplyContents == {Undefined, Some(AnswerText)}

\* The first replies with at most n tool calls: a reply without tool calls
\* (the field absent or an empty list) has any content, a reply with tool
\* calls has none or some text.
FirstReplies(n) ==
    AssistantMessages(FirstContents, {<<>>})
    \cup AssistantMessages(ToolReplyContents, BatchesUpTo(n) \ {<<>>})
SecondContents == {Undefined, Some(<<>>), Some(SummaryText)}
\* A second reply may itself ask for a tool call
SecondReplies ==
    AssistantMessages(SecondContents,
        { << [id |-> CallId(1), name |-> createToolId(ServerB, ToolT),
              arguments |-> ArgsValid] >> })

\* The configuration of the repository: one tool entry made by the factory
\* with sendResultToAI false and a handler (tool-configs/youtube/transcript.ts)
RepoToolTable ==
    [ id \in {createToolId(ServerA, ToolT)} |->
        [via |-> "factory", sendResultToAI |-> Some(FALSE), responseHandler |-> TRUE] ]

\* The same entry with sendResultToAI true, as the README's example edits it
ReadmeToolTable ==
    [ id \in {createToolId(ServerA, ToolT)} |->
        [via |-> "factory", sendResultToAI |-> Some(TRUE), responseHandler |-> TRUE] ]

\* mcp-server-config.ts: server a is open and sets no default, server c is
\* not open, server b is open and sets sendResultToAI true
RepoConfig ==
    << Descriptor(ServerA, TRUE, Undefined),
       Descriptor(ServerC, FALSE, Undefined),
       Descriptor(ServerB, TRUE, Some(TRUE)) >>

\* this.serverConfigs as the constructor builds it from that array
RepoServerConfigs == ServerConfigsOf(RepoConfig)

\* Descriptor arrays of up to MaxFleet entries, names repeated or not
FleetDescriptors ==
    { Descriptor(n, o, Undefined) : n \in Servers \cup {ServerC}, o \in BOOLEAN }
FleetConfigs == UNION { [1..n -> FleetDescriptors] : n \in 0..MaxFleet }

PipelineToolTables == {RepoToolTable, ReadmeToolTable}

AllToolTables == PartialMaps(ToolIds, ToolEntrySpecs)
AllServerConfigs == PartialMaps(Servers, [sendResultToAI : TriState])

\* The state after `new MCPClient()`
Constructed ==
    /\ toolConfigs = EmptyMap
    /\ sessions = {}
    /\ transports = {}
    /\ pc = "idle"
    /\ messages = <<>>
    /\ request = Undefined
    /\ finalOutputText = <<>>
    /\ exec = <<>>
    /\ secondAiMessage = Undefined
    /\ result = NoResult
    /\ modelCalls = 0
    /\ callLog = <<>>
    /\ connectLog = <<>>
    /\ connectedServers = Undefined
    /\ closeLog = <<>>
    /\ closed = {}
    /\ orphaned = FALSE
    /\ listLog = {}
    /\ settleOrder = <<>>

\* `applied` while no helper is applied on its own
NoApplication == [fn |-> "none", arg |-> <<>>, out |-> Undefined]

\* The state after `new FileSystemStorage()` in a directory without outputs
NewStorage ==
    /\ files = EmptyMap
    /\ metadataIndex = EmptyMap
    /\ initialized = FALSE
    /\ indexFile = Undefined
    /\ lastSave = Undefined

\* One processQuery call at most, and no fetchApi call
Single ==
    /\ other = NotCalled
    /\ running = 1
    /\ fetching = NoFetch

\* No helper is applied on its own, the storage is empty and unused, and
\* neither a second query nor a fetch is under way
Untouched ==
    /\ applied = NoApplication
    /\ NewStorage
    /\ Single

Init ==
    /\ toolTable \in PipelineToolTables
    /\ configList = RepoConfig
    /\ serverConfigs = RepoServerConfigs
    /\ Constructed
    /\ Untouched

InitPolicy ==
    /\ toolTable \in AllToolTables
    /\ configList = RepoConfig
    /\ serverConfigs \in AllServerConfigs
    /\ Constructed
    /\ Untouched

\* Any descriptor array of up to MaxFleet entries, the tables built from it
InitFleet ==
    /\ toolTable = RepoToolTable
    /\ configList \in FleetConfigs
    /\ serverConfigs = ServerConfigsOf(configList)
    /\ Constructed
    /\ Untouched

\* Everything but the first model reply.  A close that fails in cleanup is
\* here the first one, and a name is connected when it is not registered:
\* what a failure after some closes and a second connection of a name leave
\* behind is the subject of SpecFleet.
Rest ==
    \/ initialize
    \/ \E name \in Servers, ok \in BOOLEAN :
          (ok => name \notin sessions) /\ connectToServer(name, ok)
    \/ \E order \in VisitOrders(transports),
          failAt \in {k \in 0..1 : k <= Cardinality(transports)} :
            cleanup(order, failAt)
    \/ CleanupReturns
    \/ ProcessQueryRejected
    \/ \E listFails \in SUBSET sessions : ProcessQuery(listFails)
    \/ \E f \in ApiFailures : AiFirstFails(f)
    \/ \E i \in 1..Len(exec), c \in ToolContents : CallToolReturns(i, c)
    \/ \E i \in 1..Len(exec), e \in Thrown : CallToolThrows(i, e)
    \/ \E i \in 1..Len(exec), h \in HandlerOutcomes : HandlerSettles(i, h)
    \/ Aggregate
    \/ \E f \in ApiFailures : AiSecondFails(f)
    \/ \E m \in SecondReplies : AiSecondReply(m)
    \/ Deliver

Next ==
    \/ Rest
    \/ \E m \in FirstReplies(MaxCalls) : AiFirstReply(m)

\* Connecting and disconnecting only
NextFleet ==
    \/ \E oks \in [1..Len(OpenServers) -> BOOLEAN] : connectToAllServers(oks)
    \/ ConnectReturns
    \/ \E name \in Servers \cup {ServerC}, ok \in BOOLEAN : connectToServer(name, ok)
    \/ \E order \in VisitOrders(transports),
          failAt \in 0..Cardinality(transports) : cleanup(order, failAt)
    \/ CleanupReturns

\* Replies with at most one tool call
NextPolicy ==
    \/ Rest
    \/ \E m \in FirstReplies(1) : AiFirstReply(m)

\* The pipeline on the repository's kind of configuration
Spec == Init /\ [][Next]_vars

\* Single tool calls on every configuration of the two tables
SpecPolicy == InitPolicy /\ [][NextPolicy]_vars

\* Fleet connection on every descriptor array
SpecFleet == InitFleet /\ [][NextFleet]_vars

\* The replies, failures and tool outcomes of the runs in which termination
\* is checked: batches of one to MaxCalls calls with parsable arguments, to
\* either server, whether it is connected or not
LiveBatches ==
    { b \in BatchesUpTo(MaxCalls) \ {<<>>} :
        \A i \in 1..Len(b) : b[i].arguments = ArgsValid }
LiveFirstReplies == AssistantMessages({Undefined}, LiveBatches)
LiveSecondReplies == AssistantMessages({Some(SummaryText)}, {})
LiveFailures == { f \in ApiFailures : f.kind = "emptyChoices" /\ f.error = Undefined }

\* A model call in flight settles: it returns a message or fails
ModelCallSettles ==
    \/ \E m \in LiveFirstReplies : AiFirstReply(m)
    \/ \E f \in LiveFailures : AiFirstFails(f)
    \/ \E m \in LiveSecondReplies : AiSecondReply(m)
    \/ \E f \in LiveFailures : AiSecondFails(f)

\* A tool invocation in flight (or its response handler) settles
ToolCallSettles ==
    \/ \E i \in 1..Len(exec) : CallToolReturns(i, ContentString)
    \/ \E i \in 1..Len(exec) : CallToolThrows(i, ThrownError)
    \/ \E i \in 1..Len(exec) : HandlerSettles(i, "message")

NextLive ==
    \/ initialize
    \/ \E name \in Servers \ sessions : connectToServer(name, TRUE)
    \/ ProcessQuery({})
    \/ ModelCallSettles
    \/ ToolCallSettles
    \/ Aggregate
    \/ Deliver

\* The pipeline when the collaborators answer: every model call and every
\* tool invocation in flight settles at some time, and the continuation of
\* a fulfilled Promise.all is run by the event loop.
SpecLive ==
    /\ Init
    /\ [][NextLive]_vars
    /\ WF_vars(ModelCallSettles)
    /\ WF_vars(ToolCallSettles)
    /\ WF_vars(Aggregate)

\* Two calls of processQuery at once.  The collaborators answer call q with
\* values of its own: a batch of one tool call with the id CallId(q), tool
\* content PairContent(q), the summary PairSummary(q).
PairBatches(q) ==
    { << [id |-> CallId(q), name |-> n, arguments |-> ArgsValid] >> :
        n \in ToolIds }
PairContent(q) == IF q = 1 THEN ContentString ELSE ContentObject
PairSummary(q) == <<"Summary of call ", CallIds[q]>>
PairFirstReplies(q) == AssistantMessages({Undefined}, PairBatches(q))
PairSecondReplies(q) == AssistantMessages({Some(PairSummary(q))}, {})

NextPair ==
    \/ initialize
    \/ \E name \in Servers \ sessions : connectToServer(name, TRUE)
    \/ ProcessQuery({})
    \/ \E m \in PairFirstReplies(running) : AiFirstReply(m)
    \/ \E i \in 1..Len(exec) : CallToolReturns(i, PairContent(running))
    \/ \E i \in 1..Len(exec) : CallToolThrows(i, ThrownError)
    \/ \E i \in 1..Len(exec) : HandlerSettles(i, "message")
    \/ Aggregate
    \/ \E m \in PairSecondReplies(running) : AiSecondReply(m)
    \/ Deliver
    \/ Switch

\* Two calls of processQuery on one client, interleaved at their awaits
SpecPair == Init /\ [][NextPair]_vars

\* The saves of the storage runs: two files, a string or an object as
\* content, tags absent, empty or given, metadata absent or given, overwrite
\* absent, true or false
Filenames == { <<"a.txt">>, <<"sub/", "b.json">> }
Tags == {"t1", "t2"}
TagOptions == {Undefined, Some({}), Some({"t1"}), Some({"t1", "t2"})}
MetadataOptions == {Undefined, Some(<<"source: x">>)}
StorageOptions ==
    [ tags : TagOptions, metadata : MetadataOptions, overwrite : TriState ]

InitStorage ==
    /\ toolTable = RepoToolTable
    /\ configList = RepoConfig
    /\ serverConfigs = RepoServerConfigs
    /\ Constructed
    /\ Untouched

NextStorage ==
    \/ \E filename \in Filenames, content \in ToolContents,
          options \in StorageOptions, writeOk, indexOk \in BOOLEAN :
            save(filename, content, options, writeOk, indexOk)
    \/ SaveReturns
    \/ Restart

\* The file storage on its own
SpecStorage == InitStorage /\ [][NextStorage]_vars

\* What a failed attempt throws: the TypeError of fetch, the Error made for
\* a response that is not ok, the SyntaxError of response.json(), and an
\* error without a message
FetchErrors ==
    { [name |-> "TypeError", message |-> <<"fetch failed">>],
      [name |-> "Error", message |-> <<"API request failed (", "500", "): ", "oops">>],
      [name |-> "SyntaxError", message |-> <<"Unexpected token">>],
      [name |-> "Error", message |-> <<>>] }
FetchData == { ContentObject }

InitFetch ==
    /\ toolTable = RepoToolTable
    /\ configList = RepoConfig
    /\ serverConfigs = RepoServerConfigs
    /\ Constructed
    /\ Untouched

NextFetch ==
    \/ \E retries \in 0..MaxRetries : fetchApi(retries)
    \/ \E data \in FetchData : AttemptSucceeds(data)
    \/ \E error \in FetchErrors : AttemptFails(error)
    \/ FetchReturns

\* fetchApi on its own
SpecFetch == InitFetch /\ [][NextFetch]_vars

\* Server and tool names of up to MaxName characters, letters or underscores
NameChars == {"a", "_"}
Names == UNION { [1..n -> NameChars] : n \in 1..MaxName }
RouteInputs ==
    { [fn |-> "route", arg |-> <<s, t>>, out |-> Undefined] : s, t \in Names }

\* What a field of a transformer's return value may hold: nothing, null,
\* strings, numbers, a boolean, objects, an array
FieldValues ==
    { JsUndefined, JsNull, JsString(<<>>), JsString(<<"m">>),
      JsValue("number", <<"0">>), JsValue("number", <<"7">>),
      JsValue("boolean", <<"false">>), EmptyObject,
      JsValue("object", <<"{\"text\":\"/out/f.txt\"}">>),
      JsValue("array", <<"[]">>) }

\* What a transformer may return: a value that is no object, an array, or
\* an object with any of the three fields holding any of these values
Responses ==
    { AsResponse(v) : v \in FieldValues \ {EmptyObject} }
    \cup { ObjectWith(m, p, r) : m, p, r \in FieldValues }
ValidateInputs ==
    { [fn |-> "validate", arg |-> x, out |-> <<>>] : x \in Responses }

\* Environments: process.env may hold a key with the value undefined, and so
\* may serverConfig.env (mcp-server-config.ts copies variables that may be
\* unset); serverConfig.env may be absent.
EnvKeys == {"PATH", "API_URL"}
ProcessEnvs == PartialMaps(EnvKeys, {Undefined, Some(<<"inherited">>)})
ServerEnvs ==
    {Undefined}
    \cup {Some(e) : e \in PartialMaps(EnvKeys, {Undefined, Some(<<"override">>)})}
EnvInputs ==
    { [fn |-> "env", arg |-> [processEnv |-> p, serverEnv |-> e], out |-> <<>>] :
        p \in ProcessEnvs, e \in ServerEnvs }

\* One helper is about to be applied to one input
InitHelpers ==
    /\ toolTable = RepoToolTable
    /\ configList = RepoConfig
    /\ serverConfigs = RepoServerConfigs
    /\ Constructed
    /\ NewStorage
    /\ Single
    /\ \/ applied \in RouteInputs
       \/ applied \in ValidateInputs
       \/ applied \in EnvInputs

NextHelpers ==
    \/ RouteToolId
    \/ Validate
    \/ MergeEnv

\* The helper functions on every input of the bounded sets
SpecHelpers == InitHelpers /\ [][NextHelpers]_vars


\* =================================================================== claims
\* The server that owns a tool identifier: the s it was made from.
OwnerOf(toolId) == CHOOSE s \in Servers : toolId = createToolId(s, ToolT)

\* The tool-specific and the server-level settings of a tool identifier, as
\* the two tables hold them (Undefined when the entry or the field is absent)
ToolSetting(toolId) ==
    IF toolId \in DOMAIN toolConfigs
    THEN toolConfigs[toolId].sendResultToAI ELSE Undefined
ServerSetting(toolId) ==
    IF OwnerOf(toolId) \in DOMAIN serverConfigs
    THEN serverConfigs[OwnerOf(toolId)].sendResultToAI ELSE Undefined

\* tool-specific > server default > false
Precedence(toolId) ==
    IF ToolSetting(toolId) \in {Some(TRUE), Some(FALSE)}
    THEN Get(ToolSetting(toolId))
    ELSE IF ServerSetting(toolId) \in {Some(TRUE), Some(FALSE)}
    THEN Get(ServerSetting(toolId))
    ELSE FALSE

Calls == 1..Len(exec)
Sent(i) == IsDefined(exec[i].messageForAI)

\* C1: a tool call that reached the decision (its invocation succeeded or
\* failed) produces a model-bound message exactly when the tool-specific
\* sendResultToAI is true, or it is unset and the owning server's is true.
C1_Precedence ==
    \A i \in Calls :
        exec[i].outcome \in {"ok", "failed"} => (Sent(i) <=> Precedence(exec[i].call.name))

\* C1 witness: server default true, tool-specific false, a successful call
\* and no message.
C1_Witness ==
    \E i \in Calls :
        /\ exec[i].outcome = "ok"
        /\ ToolSetting(exec[i].call.name) = Some(FALSE)
        /\ ServerSetting(exec[i].call.name) = Some(TRUE)
        /\ ~Sent(i)

\* C2: a failed invocation produces a message exactly when a successful one
\* of the same tool would, and conversely.
C2_ErrorSamePolicy ==
    \A i \in Calls :
        /\ exec[i].outcome = "failed" => (Sent(i) <=> ShouldSendToAI(exec[i].call.name))
        /\ exec[i].outcome = "ok" => (Sent(i) <=> ShouldSendErrorToAI(exec[i].call.name))

\* C2 witness: a failed invocation of a tool with its own setting true on a
\* server whose default is false, and its error message is produced.
C2_Witness ==
    \E i \in Calls :
        /\ exec[i].outcome = "failed"
        /\ ToolSetting(exec[i].call.name) = Some(TRUE)
        /\ ServerSetting(exec[i].call.name) = Some(FALSE)
        /\ Sent(i)

\* C3 (as stated): a tool entry made by createToolConfig with sendResultToAI
\* omitted, loaded by initialize, on a server whose sendResultToAI is true:
\* a successful call to it produces a model-bound message.
C3_FactoryOmittedUsesServer ==
    \A i \in Calls :
        LET id == exec[i].call.name
        IN  ( /\ exec[i].outcome = "ok"
              /\ id \in DOMAIN toolTable
              /\ id \in DOMAIN toolConfigs
              /\ toolTable[id].via = "factory"
              /\ toolTable[id].sendResultToAI = Undefined
              /\ ServerSetting(id) = Some(TRUE) )
            => Sent(i)


\* The first model reply of the running query, once it has been appended
HasFirstReply == Len(messages) >= 2
FirstReply == messages[2]
RequestedCalls ==
    IF HasFirstReply /\ IsDefined(FirstReply.tool_calls)
    THEN Get(FirstReply.tool_calls) ELSE <<>>

\* No step of the pipeline has been taken for the query
NothingStarted ==
    /\ modelCalls = 0
    /\ request = Undefined
    /\ messages = <<>>
    /\ exec = <<>>
    /\ callLog = <<>>
    /\ listLog = {}

\* C4: with an empty session registry, processQuery can only be rejected:
\* it throws "Not connected to any server" and no catalog is fetched, no
\* model call is made and no tool is invoked.
C4_RejectedWhenNoSession ==
    [][ (pc = "idle" /\ sessions = {})
        => /\ pc' \notin {"ai1", "tools", "ai2"}
           /\ pc' = "done" => result' = Thrown_NotConnected
           /\ NothingStarted' ]_vars

\* C4 witness: a query rejected on an initialized client that holds no
\* session.
C4_Witness ==
    /\ pc = "done"
    /\ result = Thrown_NotConnected
    /\ sessions = {}
    /\ toolConfigs # EmptyMap
    /\ NothingStarted

\* The first reply carries no tool-call request: the field is absent or empty
NoToolCallsRequested ==
    HasFirstReply /\ (~IsDefined(FirstReply.tool_calls) \/ Get(FirstReply.tool_calls) = <<>>)

\* C5 (as stated): a first reply with no tool-call requests (field absent or
\* an empty list) and text T gives a result whose trace is exactly T, with no
\* final summary, no tool invoked and a single model call.
C5_DirectAnswer ==
    (pc = "done" /\ NoToolCallsRequested /\ IsDefined(FirstReply.content))
    => /\ result.kind = "returned"
       /\ result.fullOutput = Get(FirstReply.content)
       /\ result.finalAiResponse = Undefined
       /\ exec = <<>>
       /\ modelCalls = 1

\* The lines of every tool call, in request order
AllToolLines == Flatten([i \in Calls |-> exec[i].outputMessages])

\* C6: when every requested tool call resolves to sendResultToAI = true and
\* the second model call returns non-empty content S, the result's
\* finalAiResponse is S and its trace is the tool calls' output lines, the
\* summary separator and S.
C6_SummaryReturned ==
    ( /\ pc = "done"
      /\ Len(RequestedCalls) > 0
      /\ \A i \in 1..Len(RequestedCalls) : Precedence(RequestedCalls[i].name)
      /\ IsDefined(secondAiMessage)
      /\ TruthyStr(Get(secondAiMessage).content) )
    => /\ result.kind = "returned"
       /\ result.finalAiResponse = Get(secondAiMessage).content
       /\ result.fullOutput =
            Join(AllToolLines
                 \o << <<"\n[AI Summary]:">>, Get(Get(secondAiMessage).content) >>)

\* C6 witness: two successful calls, both sent, and the summary returned
C6_Witness ==
    /\ pc = "done"
    /\ Len(exec) = 2
    /\ \A i \in Calls : exec[i].outcome = "ok" /\ Sent(i) /\ Precedence(exec[i].call.name)
    /\ Len(AllToolLines) = 2
    /\ result.finalAiResponse = Some(SummaryText)


\* The tool-role messages of a conversation, in order
RECURSIVE ToolRoleMessages(_)
ToolRoleMessages(msgs) ==
    IF Len(msgs) = 0 THEN <<>>
    ELSE (IF Head(msgs).role = "tool" THEN <<Head(msgs)>> ELSE <<>>)
         \o ToolRoleMessages(Tail(msgs))

\* s is an initial segment of t
IsPrefix(s, t) == Len(s) <= Len(t) /\ SubSeq(t, 1, Len(s)) = s

\* The batch has been aggregated
Aggregated == pc \in {"ai2", "done"} /\ IsDefined(FirstReply.tool_calls)

ExactlyOneFails ==
    /\ Cardinality({i \in Calls : exec[i].outcome = "failed"}) = 1
    /\ \A i \in Calls : exec[i].outcome \in {"ok", "failed"}

\* C7: in an aggregated batch where exactly one invocation failed and the
\* others succeeded, the trace holds the output lines of all the calls, the
\* failed call's message (if sent) carries {"error": <its error line>} and
\* every other message carries the serialized result of its call.
C7_OneFailureIsolated ==
    (HasFirstReply /\ Aggregated /\ ExactlyOneFails)
    => /\ IsPrefix(AllToolLines, finalOutputText)
       /\ \A i \in Calls :
            /\ Sent(i) =>
                 /\ Get(exec[i].messageForAI).tool_call_id = Some(exec[i].call.id)
                 /\ Get(exec[i].messageForAI) \in {messages[k] : k \in 1..Len(messages)}
                 /\ Get(exec[i].messageForAI).content =
                      IF exec[i].outcome = "failed"
                      THEN Some(<<"{\"error\":\"">>
                                \o exec[i].outputMessages[Len(exec[i].outputMessages)]
                                \o <<"\"}">>)
                      ELSE Some(Stringify(Get(exec[i].content)))

\* C7 witness: two calls, the first failed, the second succeeded, both sent
C7_Witness ==
    /\ pc = "ai2"
    /\ Len(exec) = 2
    /\ exec[1].outcome = "failed" /\ Sent(1)
    /\ exec[2].outcome = "ok" /\ Sent(2)

\* C8: every requested call is dispatched, in request order, whatever
\* happens to its siblings: a call with a session and parsable arguments is
\* invoked, and the batch is aggregated only when every call has settled.
C8_AllDispatchedThenJoined ==
    (HasFirstReply /\ IsDefined(FirstReply.tool_calls))
    => /\ Len(exec) = Len(RequestedCalls)
       /\ \A i \in Calls :
            /\ exec[i].call = RequestedCalls[i]
            /\ (pc = "tools" /\ OwnerOf(exec[i].call.name) \in sessions
                /\ exec[i].call.arguments = ArgsValid)
               => exec[i].outcome \in {"pending", "ok", "failed"}
       /\ pc # "tools" => \A i \in Calls : exec[i].st = "settled"

\* C8 witness: the first call has no session, the second was still invoked
\* and succeeded, and the batch was aggregated.
C8_Witness ==
    /\ pc = "done"
    /\ Len(exec) = 2
    /\ exec[1].outcome = "noSession"
    /\ exec[2].outcome = "ok"

\* C9: while the second model call is in flight every tool call has settled
\* and the request holds, after the first reply, exactly the tool-role
\* messages the batch produced.
C9_SecondCallAfterBarrier ==
    (modelCalls = 2 /\ pc # "done")
    => /\ pc = "ai2"
       /\ \A i \in Calls : exec[i].st = "settled"
       /\ IsDefined(request)
       /\ ToolRoleMessages(Get(request).messages)
            = Flatten([i \in Calls |-> exec[i].messageForAI])

\* C9 witness: the second call in flight with two tool messages, the call
\* requested first having passed through its response handler.
C9_Witness ==
    /\ pc = "ai2"
    /\ Len(exec) = 2
    /\ Sent(1) /\ Sent(2)
    /\ HasHandler(exec[1].call.name)

\* C10: a query makes a second model call exactly when its tool calls
\* produced at least one tool-role message; otherwise it ends after one.
C10_SecondCallIffToolMessage ==
    (pc \in {"ai2", "done"} /\ result.kind # "thrown")
    => /\ modelCalls \in {1, 2}
       /\ modelCalls = 2 <=> (Len(RequestedCalls) > 0 /\ \E i \in Calls : Sent(i))

\* C10 witness: two successful calls, neither sent, and the query returned
\* after one model call.
C10_Witness ==
    /\ pc = "done"
    /\ Len(exec) = 2
    /\ \A i \in Calls : exec[i].outcome = "ok" /\ ~Sent(i)
    /\ modelCalls = 1
    /\ result.kind = "returned"


IdsOf(calls) == {calls[i].id : i \in 1..Len(calls)}
LoggedIds == {callLog[i].call : i \in 1..Len(callLog)}

\* C12: a query makes at most two model calls and dispatches one round of
\* tool calls: every invocation belongs to a call of the first reply, no call
\* is invoked twice, and once the second model call is made nothing more is
\* dispatched or requested, whatever tool calls the second reply carries.
C12_TwoCallsOneRound ==
    /\ [](/\ modelCalls \in 0..2
          /\ LoggedIds \subseteq IdsOf(RequestedCalls)
          /\ \A i, j \in 1..Len(callLog) :
                callLog[i].call = callLog[j].call => i = j)
    /\ [][ pc = "ai2"
           => /\ pc' = "done"
              /\ exec' = exec
              /\ callLog' = callLog
              /\ modelCalls' = modelCalls
              /\ request' = Undefined ]_vars

\* C12 witness: the second reply asked for a tool call and the query has
\* returned with the two invocations of the first round only.
C12_Witness ==
    /\ pc = "done"
    /\ IsDefined(secondAiMessage)
    /\ IsDefined(Get(secondAiMessage).tool_calls)
    /\ Len(Get(Get(secondAiMessage).tool_calls)) > 0
    /\ modelCalls = 2
    /\ Len(callLog) = 2
    /\ result.kind = "returned"


\* A model call of the running query has failed: the query is over and the
\* reply to its last model call never came.
ModelCallFailed ==
    /\ pc = "done"
    /\ \/ modelCalls = 1 /\ ~HasFirstReply
       \/ modelCalls = 2 /\ ~IsDefined(secondAiMessage)

QueryErrorLines == {QueryErrorLine(f) : f \in ApiFailures}

\* C13: a query started with a session registered never throws; when its
\* first or second model call fails, nothing more is done (no tool call after
\* a failed first call) and the result is returned with no final summary and
\* a trace made of the tool output lines so far and the formatted error.
C13_ModelFailureReturned ==
    /\ (pc = "done" /\ result.kind = "thrown") => NothingStarted
    /\ ModelCallFailed
       => /\ result.kind = "returned"
          /\ result.finalAiResponse = Undefined
          /\ Len(finalOutputText) = Len(AllToolLines) + 1
          /\ IsPrefix(AllToolLines, finalOutputText)
          /\ finalOutputText[Len(finalOutputText)] \in QueryErrorLines
          /\ result.fullOutput = Join(finalOutputText)
          /\ modelCalls = 1 => (exec = <<>> /\ callLog = <<>>)

\* C13 witness: the second model call failed after two tool calls produced
\* their lines.
C13_Witness ==
    /\ ModelCallFailed
    /\ modelCalls = 2
    /\ Len(AllToolLines) = 2
    /\ result.kind = "returned"


\* The locals of processQuery as a new call finds them
FreshQuery ==
    /\ messages = <<>>
    /\ request = Undefined
    /\ finalOutputText = <<>>
    /\ exec = <<>>
    /\ secondAiMessage = Undefined
    /\ result = NoResult
    /\ modelCalls = 0
    /\ callLog = <<>>

\* The positions of processQuery
InQuery(p) == p \in {"ai1", "tools", "ai2", "done"}

\* C14: no step of processQuery, successful or failed, changes the session
\* registry, the transport map or the tool and server tables, and when the
\* caller has its result nothing of the query is left: the next query starts
\* from the state a fresh client with the same registry and tables has.
C14_QueryLeavesRegistry ==
    /\ [][ (InQuery(pc) \/ InQuery(pc'))
           => UNCHANGED <<sessions, transports, toolConfigs, serverConfigs,
                          toolTable>> ]_vars
    /\ [](pc = "idle" => FreshQuery)

\* C14 witness: a query whose second model call failed has returned on a
\* client that still holds its sessions and tool table.
C14_Witness ==
    /\ ModelCallFailed
    /\ modelCalls = 2
    /\ sessions = Servers
    /\ transports = Servers
    /\ toolConfigs # EmptyMap


\* The call cannot be started: its server has no session or its argument
\* payload is not JSON
NoSessionFor(toolCall) == OwnerOf(toolCall.name) \notin sessions
Unparsable(toolCall) == toolCall.arguments = ArgsInvalid
CannotStart(toolCall) == NoSessionFor(toolCall) \/ Unparsable(toolCall)

\* C15: a tool call whose server has no session, or whose arguments do not
\* parse, settles at once with one error line of its own and is never passed
\* to callTool; its siblings that can be started are all invoked, and the
\* query goes on to aggregate every call's lines and to return.
C15_EarlyErrorsAreLocal ==
    /\ \A i \in Calls :
         IF CannotStart(exec[i].call)
         THEN /\ exec[i].st = "settled"
              /\ exec[i].outputMessages =
                   IF NoSessionFor(exec[i].call)
                   THEN << <<"[Error: Server ">> \o OwnerOf(exec[i].call.name)
                           \o <<" not found]">> >>
                   ELSE << <<"[Error: Invalid arguments for ">>
                           \o exec[i].call.name \o <<"]">> >>
              /\ exec[i].call.id \notin LoggedIds
         ELSE exec[i].call.id \in LoggedIds
    /\ (pc \in {"ai2", "done"} /\ Len(exec) > 0)
       => /\ IsPrefix(AllToolLines, finalOutputText)
          /\ result.kind # "thrown"
          /\ pc = "done" => result.kind = "returned"

\* C15 witness: the first call's arguments do not parse, the second call was
\* invoked and succeeded, and the query returned with both lines.
C15_Witness ==
    /\ pc = "done"
    /\ Len(exec) = 2
    /\ exec[1].outcome = "badArgs"
    /\ exec[2].outcome = "ok"
    /\ LoggedIds = {exec[2].call.id}
    /\ result.kind = "returned"
    /\ Len(finalOutputText) >= 2


\* The payload of a message is an error object: {"error": ...}
IsErrorPayload(content) ==
    IsDefined(content) /\ Len(Get(content)) > 0 /\ Get(content)[1] = "{\"error\":\""

\* C16 (as stated): every failed tool call (server not connected, arguments
\* not parsable, invocation error) whose policy resolves to true produces a
\* tool-role message with the call's id and an error payload.
C16_ErrorsSentByPolicy ==
    \A i \in Calls :
        ( /\ exec[i].st = "settled"
          /\ exec[i].outcome \in {"noSession", "badArgs", "failed"}
          /\ Precedence(exec[i].call.name) )
        => /\ Sent(i)
           /\ Get(exec[i].messageForAI).role = "tool"
           /\ Get(exec[i].messageForAI).tool_call_id = Some(exec[i].call.id)
           /\ IsErrorPayload(Get(exec[i].messageForAI).content)


\* C17 (as stated): every dispatched tool call, once settled, has put at
\* least one output line in the trace, whether or not it is sent to the
\* model, with or without a response transformer.
C17_EveryCallHasALine ==
    \A i \in Calls :
        exec[i].st = "settled" => Len(exec[i].outputMessages) >= 1

\* JSON.stringify of a normalized transformer response
StringifyToolResponse(r) ==
    <<"{\"message\":\"">> \o r.message.text \o <<"\",\"paths\":">>
    \o r.paths.text \o <<",\"rawContent\":">>
    \o (IF r.rawContent = JsNull THEN <<"null">> ELSE Stringify(r.rawContent))
    \o <<"}">>

\* The serializations a transformer that returned can have produced
TransformedSerializations(content) ==
    { StringifyToolResponse(validateToolResponse(HandlerResponse(h, content))) :
        h \in HandlerOutcomes \ {"throws"} }

\* The transformer of call i ran and returned (it did not throw)
TransformerReturned(i) ==
    /\ HasHandler(exec[i].call.name)
    /\ \A k \in 1..Len(exec[i].outputMessages) :
         exec[i].outputMessages[k][1] # "[Error processing "

\* C18 (as stated): the message of a successful call whose policy is true has
\* the call's id and carries the serialization of the transformed result when
\* a transformer is configured, of the raw result when none is.
C18_MessageCarriesTransformed ==
    \A i \in Calls :
        (exec[i].outcome = "ok" /\ Precedence(exec[i].call.name))
        => /\ Sent(i)
           /\ Get(exec[i].messageForAI).tool_call_id = Some(exec[i].call.id)
           /\ ~HasHandler(exec[i].call.name)
              => Get(exec[i].messageForAI).content
                   = Some(Stringify(Get(exec[i].content)))
           /\ TransformerReturned(i)
              => Get(Get(exec[i].messageForAI).content)
                   \in TransformedSerializations(Get(exec[i].content))

\* C19 (as stated): for every tool call of a batch one sendResultToAI
\* decision is computed, it is the precedence function of the tool identifier
\* and the two tables, and it alone decides whether the call's message is
\* produced, whatever the outcome of the call and of its siblings.
C19_OneDecisionPerCall ==
    \A i \in Calls :
        exec[i].st = "settled"
        => /\ IsDefined(exec[i].shouldSend)
           /\ Get(exec[i].shouldSend) = Precedence(exec[i].call.name)
           /\ Sent(i) <=> Get(exec[i].shouldSend)


\* The names of a list of descriptors or of log entries, in order
NamesOf(list) == [i \in 1..Len(list) |-> list[i].name]
IsSuccess(entry) == entry.ok

CloseAttempted(log) == {log[i].name : i \in 1..Len(log)}
CloseSucceeded(log) == {log[i].name : i \in {k \in 1..Len(log) : log[k].ok}}
EveryCloseSucceeded(log) == \A i \in 1..Len(log) : log[i].ok

\* C21 (as stated): cleanup is best-effort: whichever close fails, close has
\* been called on every registered transport, every transport but the
\* failing ones is closed, and both maps are empty afterwards.
C21_CleanupBestEffort ==
    [][ (pc = "idle" /\ pc' = "cleaned")
        => /\ CloseAttempted(closeLog') = transports
           /\ Cardinality(transports \ CloseSucceeded(closeLog')) <= 1
           /\ sessions' = {}
           /\ transports' = {} ]_vars

ListedOk == {c.server : c \in {x \in listLog : x.ok}}
CatalogEntry(s, t) ==
    [ name        |-> createToolId(s, t.name),
      description |-> <<"[">> \o s \o <<"] ">> \o Get(t.description) ]

\* C23: while the first model call is in flight, listTools has been called
\* on every session, and whichever of these calls failed, the catalog of the
\* request holds exactly the tools of the servers whose listing succeeded,
\* each named serverName__toolName and described with the owning server's
\* name in front (no catalog is sent when that leaves none).
C23_ListingBestEffort ==
    pc = "ai1"
    => LET expected == UNION { {CatalogEntry(s, t) : t \in ServerTools(s)} :
                               s \in ListedOk }
       IN  /\ {c.server : c \in listLog} = sessions
           /\ modelCalls = 1
           /\ IsDefined(request)
           /\ Get(request).tools =
                IF expected = {} THEN Undefined ELSE Some(expected)

\* C23 witness: two sessions, listTools failed on a and succeeded on b, and
\* the first request is in flight with the one tool of b.
C23_Witness ==
    /\ pc = "ai1"
    /\ sessions = Servers
    /\ listLog = { [server |-> ServerA, ok |-> FALSE],
                   [server |-> ServerB, ok |-> TRUE] }
    /\ IsDefined(request)
    /\ Get(request).tools =
         Some({ [ name        |-> <<"b", "_", "_", "t">>,
                  description |-> <<"[", "b", "] ", "d">> ] })


\* C24 (as stated): for every server name s and tool name t, splitting
\* createToolId(s, t) the way the dispatcher does gives back exactly s and t,
\* and no other pair of names has the same identifier.
C24_ToolIdRoundTrip ==
    (applied.fn = "route" /\ IsDefined(applied.out))
    => LET r == Get(applied.out)
       IN  /\ r.serverName = applied.arg[1]
           /\ r.toolName = Some(applied.arg[2])
           /\ \A s, t \in Names :
                createToolId(s, t) = r.id => <<s, t>> = applied.arg


\* The response with every field at its default, and what the coercion rule
\* makes of a value: the defaults, with the fields of the value that are
\* valid in place of them
AllDefaults == ObjectWith(JsString(<<>>), EmptyObject, JsNull)
IsPlainObject(v) == v.type \in {"object", "array"}
Coerced(x) ==
    IF ~IsPlainObject(x) THEN AllDefaults
    ELSE ObjectWith(
           IF x.message.type = "string" THEN x.message ELSE AllDefaults.message,
           IF IsPlainObject(x.paths) THEN x.paths ELSE AllDefaults.paths,
           IF x.rawContent # JsUndefined THEN x.rawContent
           ELSE AllDefaults.rawContent)

\* C25 (as stated): for every input, validateToolResponse returns the
\* all-defaults response merged with the input's valid fields: its message
\* when that is a string, its paths when that is an object, its rawContent
\* when it has one; an input that is null or no object gives the defaults.
C25_ValidateCoerces ==
    (applied.fn = "validate" /\ Len(applied.out) >= 1)
    => applied.out[1] = Coerced(applied.arg)

\* C26: validateToolResponse is idempotent: applied to its own result it
\* returns that result.
C26_ValidateIdempotent ==
    (applied.fn = "validate" /\ Len(applied.out) = 2)
    => applied.out[2] = applied.out[1]

\* C26 witness: an input that validation changes in every field (a number
\* as message, a string as paths, rawContent 0 that becomes null) has been
\* validated twice.
C26_Witness ==
    /\ applied.fn = "validate"
    /\ Len(applied.out) = 2
    /\ applied.arg = ObjectWith(JsValue("number", <<"7">>), JsString(<<"m">>),
                                JsValue("number", <<"0">>))
    /\ applied.out[1] = AllDefaults
    /\ applied.out[1] # applied.arg


\* C27: the environment given to the spawned process has, for every key of
\* the server's env, the server's value; for every other key the caller's
\* environment defines, the inherited value; and no other key.
C27_EnvMerged ==
    (applied.fn = "env" /\ IsDefined(applied.out))
    => LET mergedEnv == Get(applied.out)
           inherited == applied.arg.processEnv
           overrides == IF IsDefined(applied.arg.serverEnv)
                        THEN Get(applied.arg.serverEnv) ELSE EmptyMap
           definedKeys == {k \in DOMAIN inherited : inherited[k] # Undefined}
       IN  /\ \A k \in DOMAIN overrides : mergedEnv[k] = overrides[k]
           /\ \A k \in definedKeys \ DOMAIN overrides : mergedEnv[k] = inherited[k]
           /\ DOMAIN mergedEnv = DOMAIN overrides \cup definedKeys

\* C27 witness: PATH is inherited and overridden, API_URL is inherited only;
\* the merged environment has the override for PATH and the inherited value
\* for API_URL.
C27_Witness ==
    /\ applied.fn = "env"
    /\ IsDefined(applied.out)
    /\ DOMAIN applied.arg.processEnv = EnvKeys
    /\ applied.arg.processEnv["PATH"] = Some(<<"inherited">>)
    /\ applied.arg.processEnv["API_URL"] = Some(<<"inherited">>)
    /\ IsDefined(applied.arg.serverEnv)
    /\ DOMAIN Get(applied.arg.serverEnv) = {"PATH"}
    /\ Get(applied.out)["PATH"] = Some(<<"override">>)
    /\ Get(applied.out)["API_URL"] = Some(<<"inherited">>)


\* C28: while an invocation of the batch has not settled, no step takes the
\* query out of the tool phase, whatever the other calls have done: no
\* aggregation, no second model call, no result; and when the model calls and
\* the tool invocations all settle, a query that has started returns.
C28_BarrierStallsOrReturns ==
    /\ [][ (pc = "tools" /\ \E i \in Calls : exec[i].st # "settled")
           => /\ pc' = "tools"
              /\ modelCalls' = 1
              /\ finalOutputText' = finalOutputText
              /\ result' = NoResult ]_vars
    /\ (pc = "ai1") ~> (pc = "done" /\ result.kind = "returned")

\* C28 witness: the first call of a batch of two has completed and the
\* second is still awaiting its server; the query is in the tool phase with
\* one model call made and no result.
C28_Witness ==
    /\ pc = "tools"
    /\ Len(exec) = 2
    /\ exec[1].st = "settled"
    /\ exec[1].outcome = "ok"
    /\ exec[2].st = "calling"
    /\ modelCalls = 1
    /\ result = NoResult


\* The second model call was made and its reply has non-empty content
SecondReplyHasContent ==
    /\ modelCalls = 2
    /\ IsDefined(secondAiMessage)
    /\ IsDefined(Get(secondAiMessage).content)
    /\ Get(Get(secondAiMessage).content) # <<>>

\* C29: in every result processQuery returns, finalAiResponse is present
\* exactly when a second model call was made and returned non-empty content;
\* it is then that content, which is also the last line of the trace.
C29_SummaryIffSecondContent ==
    (pc = "done" /\ result.kind = "returned")
    => /\ IsDefined(result.finalAiResponse) <=> SecondReplyHasContent
       /\ IsDefined(result.finalAiResponse)
          => /\ result.finalAiResponse = Get(secondAiMessage).content
             /\ Len(finalOutputText) >= 2
             /\ finalOutputText[Len(finalOutputText)] = Get(result.finalAiResponse)
             /\ result.fullOutput = Join(finalOutputText)

\* C29 witness: a query whose second model call returned a summary has
\* returned it, after the lines of its tool call.
C29_Witness ==
    /\ pc = "done"
    /\ result.kind = "returned"
    /\ modelCalls = 2
    /\ result.finalAiResponse = Some(SummaryText)
    /\ Len(finalOutputText) = 3
    /\ finalOutputText[3] = SummaryText


\* C30 (as stated): when save(filename, content, {tags: T, ...}) has
\* returned, findByTags(S) holds the absolute path of the file for every S
\* within T, whether or not metadata was given; and findByTags(S) holds only
\* files whose recorded tags include every tag of S.
C30_TagsAreSearchable ==
    /\ ( /\ IsDefined(lastSave)
         /\ Get(lastSave).outcome = "returned"
         /\ IsDefined(Get(lastSave).options.tags) )
       => /\ Get(lastSave).path = Some(FilePath(Get(lastSave).filename))
          /\ \A S \in SUBSET Get(Get(lastSave).options.tags) :
               Get(Get(lastSave).path) \in findByTags(S)
    /\ \A S \in SUBSET Tags :
         \A filepath \in findByTags(S) :
            /\ filepath \in DOMAIN metadataIndex
            /\ S \subseteq metadataIndex[filepath].tags

\* The step is a call of save: the record of the call is in lastSave'
SaveCalled == ~IsDefined(lastSave) /\ IsDefined(lastSave')

\* The call of this step was given overwrite: false for a file that exists
SavedOverExisting ==
    /\ FilePath(Get(lastSave').filename) \in DOMAIN files
    /\ Get(lastSave').options.overwrite = Some(FALSE)

\* The text save writes for content (string as it is, else pretty JSON)
WrittenText(content) ==
    IF content.type = "string" THEN content.text ELSE StringifyPretty(content)

\* The second half of C31: a save that is not kept back and returns has
\* replaced the content of its file, and only of its file
ReplacesContent ==
    (SaveCalled /\ ~SavedOverExisting /\ Get(lastSave').outcome = "returned")
    => LET r == Get(lastSave')
           p == FilePath(r.filename)
       IN  /\ DOMAIN files' = DOMAIN files \cup {p}
           /\ files'[p] = WrittenText(r.content)
           /\ \A f \in DOMAIN files \ {p} : files'[f] = files[f]

\* C31 (as stated): save with overwrite = false on a file that exists
\* returns the existing path and leaves the file's content and the metadata
\* index, hence every findByTags and getMetadata answer, unchanged; with
\* overwrite unset or true the content is replaced.
C31_OverwriteFalseChangesNothing ==
    [][ /\ (SaveCalled /\ SavedOverExisting)
           => /\ Get(lastSave').outcome = "returned"
              /\ Get(lastSave').path = Some(FilePath(Get(lastSave').filename))
              /\ files' = files
              /\ metadataIndex' = metadataIndex
        /\ ReplacesContent ]_vars

\* C31 (amended): on a storage that is initialized, save with overwrite =
\* false on a file that exists returns the existing path and leaves the
\* files, the index and the index file unchanged; the first save of a
\* storage object, this one included, first loads the index file into the
\* index.  With overwrite unset or true a save that returns has replaced the
\* content.
C31_OverwriteFalseAfterInit ==
    [][ /\ (SaveCalled /\ SavedOverExisting)
           => /\ Get(lastSave').outcome = "returned"
              /\ Get(lastSave').path = Some(FilePath(Get(lastSave').filename))
              /\ files' = files
              /\ indexFile' = indexFile
              /\ metadataIndex' =
                   IF initialized \/ ~IsDefined(indexFile) THEN metadataIndex
                   ELSE Get(indexFile)
        /\ ReplacesContent ]_vars

\* An initialized storage kept a file whose content differs from the
\* content the save was given
C31_Witness ==
    /\ IsDefined(lastSave)
    /\ Get(lastSave).options.overwrite = Some(FALSE)
    /\ Get(lastSave).outcome = "returned"
    /\ FilePath(Get(lastSave).filename) \in DOMAIN files
    /\ files[FilePath(Get(lastSave).filename)] # WrittenText(Get(lastSave).content)
    /\ metadataIndex # EmptyMap

\* The position in the batch of the call with correlation id `id`
RequestIndex(id) == CHOOSE i \in Calls : Some(exec[i].call.id) = id

\* A batch was dispatched and its results were collected
BatchCollected ==
    /\ pc \in {"ai2", "done"}
    /\ Len(messages) >= 2
    /\ IsDefined(messages[2].tool_calls)

\* C32: however the completions of the tool calls interleave, the tool
\* output lines of the trace and the tool-role messages appended to the
\* conversation are in the order of the tool-call requests.
C32_RequestOrderKept ==
    BatchCollected
    => LET sent == ToolRoleMessages(messages)
       IN  /\ \A a, b \in 1..Len(sent) :
                 a < b => RequestIndex(sent[a].tool_call_id)
                          < RequestIndex(sent[b].tool_call_id)
           /\ \A k \in 1..Len(sent) :
                 \E i \in Calls : Some(exec[i].call.id) = sent[k].tool_call_id
           /\ IsPrefix(AllToolLines, finalOutputText)

\* C32 witness: the second call of the batch settled before the first, both
\* with a line and a message, and the messages are in request order
C32_Witness ==
    /\ BatchCollected
    /\ settleOrder = <<2, 1>>
    /\ \A i \in Calls : IsDefined(exec[i].messageForAI)
                         /\ Len(exec[i].outputMessages) > 0
    /\ exec[1].outputMessages # exec[2].outputMessages
    /\ Len(ToolRoleMessages(messages)) = 2

\* The step settles call i, whose response transformer was running
TransformerSettles(i) ==
    /\ pc = "tools"
    /\ exec[i].st = "handling"
    /\ Len(exec') = Len(exec)
    /\ exec'[i] # exec[i]

\* C33: whatever a response transformer does (throws, returns a malformed
\* value, returns a response), the call settles normally and not as an
\* invocation failure: its message, when policy sends one, carries the
\* result and no error payload; the sibling calls are untouched and the
\* query goes on.
C33_TransformerNeverPropagates ==
    [][ \A i \in Calls :
          TransformerSettles(i)
          => /\ exec'[i].st = "settled"
             /\ exec'[i].outcome = "ok"
             /\ exec'[i].shouldSend = Some(TRUE)
                => /\ IsDefined(exec'[i].messageForAI)
                   /\ ~IsErrorPayload(Get(exec'[i].messageForAI).content)
                   /\ Get(exec'[i].messageForAI).content
                        = Some(Stringify(Get(exec[i].content)))
             /\ \A j \in Calls \ {i} : exec'[j] = exec[j]
             /\ pc' = "tools"
             /\ result' = NoResult
             /\ messages' = messages ]_vars

\* C33 witness: the transformer of a call threw; the call is settled as a
\* success with its message, next to a sibling call, and the query has gone
\* on to the second model call
C33_Witness ==
    /\ pc = "ai2"
    /\ Len(exec) = 2
    /\ \E i \in Calls :
         /\ HasHandler(exec[i].call.name)
         /\ exec[i].outcome = "ok"
         /\ Len(exec[i].outputMessages) = 1
         /\ exec[i].outputMessages[1][1] = "[Error processing "
         /\ Sent(i)
         /\ \E j \in Calls \ {i} : exec[j].outcome = "ok"

\* The tool calls of a call's batch have been collected
CollectedIn(Q) ==
    /\ Q.pc \in {"ai2", "done"}
    /\ Len(Q.messages) >= 2
    /\ IsDefined(Q.messages[2].tool_calls)

\* What a call whose locals are Q has if it runs alone and its collaborators
\* answer as they answered it: the conversation, the trace and the result
\* that follow from its own first reply, its own tool results and its own
\* second reply
AloneMessages(Q) ==
    IF Q.pc = "idle" THEN <<>>
    ELSE <<UserMessage(QueryText)>>
         \o (IF Q.pc = "ai1" THEN <<>> ELSE <<Q.messages[2]>>)
         \o (IF CollectedIn(Q) THEN ToolMessagesOf(Q.exec) ELSE <<>>)
AloneTrace(Q) ==
    (IF CollectedIn(Q) THEN OutputLinesOf(Q.exec) ELSE <<>>)
    \o (IF IsDefined(Q.secondAiMessage)
        THEN << <<"\n[AI Summary]:">>, Get(Get(Q.secondAiMessage).content) >>
        ELSE <<>>)
AloneResult(Q) ==
    IF Q.pc # "done" THEN NoResult
    ELSE Returned(AloneTrace(Q),
                  IF IsDefined(Q.secondAiMessage)
                  THEN Get(Q.secondAiMessage).content ELSE Undefined)

\* The locals Q belong to call q and hold nothing of the other call
Confined(Q, q) ==
    /\ Q.messages = AloneMessages(Q)
    /\ Q.finalOutputText = AloneTrace(Q)
    /\ Q.result = AloneResult(Q)
    /\ \A k \in 1..Len(Q.messages) :
         Q.messages[k].role = "tool"
         => Q.messages[k].tool_call_id = Some(CallId(q))
    /\ \A i \in 1..Len(Q.exec) : Q.exec[i].call.id = CallId(q)
    /\ IsDefined(Q.secondAiMessage)
       => Get(Q.secondAiMessage).content = Some(PairSummary(q))

\* C34: two queries processed at once on one client do not interfere: the
\* conversation, the trace and the result of each are what they are when
\* it runs alone against the same collaborator responses, no tool-role
\* message or output line of one appears in the other, and a step of one
\* leaves the locals of the other as they are.
C34_QueriesDoNotInterfere ==
    /\ [](Confined(Locals, running) /\ Confined(other, 3 - running))
    /\ [][ /\ running' = running => other' = other
           /\ running' # running => (other' = Locals /\ Locals' = other)
         ]_vars

\* C34 witness: both calls have returned, each with the lines and the
\* summary of its own tool call
C34_Witness ==
    /\ pc = "done"
    /\ other.pc = "done"
    /\ IsDefined(secondAiMessage)
    /\ IsDefined(other.secondAiMessage)
    /\ Len(ToolRoleMessages(messages)) = 1
    /\ Len(ToolRoleMessages(other.messages)) = 1
    /\ result.fullOutput # other.result.fullOutput

\* The conversation of the running query is in order: the user message with
\* the query text, then the first reply, then tool-role messages only
WellOrdered ==
    (InQuery(pc) /\ modelCalls >= 1)
    => /\ Len(messages) >= 1
       /\ messages[1] = UserMessage(QueryText)
       /\ pc = "ai1" => messages = <<UserMessage(QueryText)>>
       /\ Len(messages) >= 2 => messages[2].role = "assistant"
       /\ \A k \in 1..Len(messages) : k >= 3 <=> messages[k].role = "tool"
       /\ pc = "tools" => Len(messages) = 2

\* While a query runs, a step only appends to its conversation
AppendOnly ==
    (InQuery(pc) /\ modelCalls >= 1 /\ InQuery(pc'))
    => IsPrefix(messages, messages')

\* C35 (as stated): the conversation starts as exactly one user message
\* with the query text, the first model call sees only that message, the
\* first reply is appended next, tool-role messages only after it, and no
\* message is removed or rewritten before the second model call.
C35_FirstCallSeesOnlyUserMessage ==
    /\ [](WellOrdered /\ (pc = "ai1" => Get(request).messages = messages))
    /\ [][AppendOnly]_vars

\* C35 (amended): as stated, except that the first model call is sent the
\* fixed system prompt followed by the conversation, which is only the user
\* message; the system prompt is never part of the conversation.
C35_ConversationAppendOnly ==
    /\ [](/\ WellOrdered
          /\ pc = "ai1"
             => Get(request).messages
                  = <<SystemPrompt, UserMessage(QueryText)>>
          /\ \A k \in 1..Len(messages) : messages[k].role # "system")
    /\ [][AppendOnly]_vars

\* C35 witness: the second model call is in flight on a conversation of the
\* user message, the first reply and two tool-role messages
C35_Witness ==
    /\ pc = "ai2"
    /\ Len(messages) = 4
    /\ messages[1] = UserMessage(QueryText)
    /\ messages[2].role = "assistant"
    /\ messages[3].role = "tool" /\ messages[4].role = "tool"
    /\ Get(request).messages = <<SystemPrompt>> \o messages

\* The fetch attempts made by the call so far: the settled ones and the one
\* in flight
AttemptsMade ==
    Len(fetching.log) + (IF fetching.pc = "attempting" THEN 1 ELSE 0)

C37_MapsAgree == sessions = transports

\* C37 witness: a cleanup has failed after connections were made, and both
\* maps still hold the same two names
C37_Witness ==
    /\ pc = "cleaned"
    /\ \E k \in 1..Len(closeLog) : ~closeLog[k].ok
    /\ Cardinality(sessions) = 2
    /\ sessions = transports

\* The names of the connectToServer calls of a log that failed, no call for
\* the same name in the log having succeeded
OnlyFailed(log) ==
    {log[k].name : k \in 1..Len(log)} \ {log[k].name : k \in {j \in 1..Len(log) : log[j].ok}}

\* C38: a connectToServer call that fails leaves the session map and the
\* transport map as they were: a name whose calls failed is registered
\* after them exactly if it was before, with the transport it had, so that
\* a session registered before is still registered and usable.
C38_FailedConnectChangesNothing ==
    [][ (pc = "idle" /\ pc' = "connected")
        => /\ \A n \in OnlyFailed(connectLog') :
                /\ n \in sessions' <=> n \in sessions
                /\ n \in transports' <=> n \in transports
                /\ n \in closed' <=> n \in closed
           /\ (\A k \in 1..Len(connectLog') : ~connectLog'[k].ok)
              => /\ sessions' = sessions
                 /\ transports' = transports
                 /\ closed' = closed
                 /\ orphaned' = orphaned ]_vars

\* C38 witness: the connection of a name has failed while the name was
\* registered, and it is still registered with its open transport
C38_Witness ==
    /\ pc = "connected"
    /\ \E n \in OnlyFailed(connectLog) :
         n \in sessions /\ n \in transports /\ n \notin closed

\* C39 (as stated): no connected transport is ever leaked: every transport
\* that was connected and has not been closed is held in the transport map,
\* also after connectToServer is called again for a name that is connected;
\* so a cleanup whose closes all succeed leaves no transport open.
C39_NoTransportLeaked == ~orphaned

\* The second model call is in flight
SecondCallIssued == pc = "ai2" /\ IsDefined(request)

\* How many tool-role messages of msgs carry the correlation id `id`
Answers(msgs, id) ==
    Cardinality({k \in 1..Len(msgs) :
                   msgs[k].role = "tool" /\ msgs[k].tool_call_id = Some(id)})

\* No tool-role message of msgs carries an id that the batch did not request
OnlyRequestedIds(msgs) ==
    \A k \in 1..Len(msgs) :
        msgs[k].role = "tool"
        => \E i \in 1..Len(RequestedCalls) :
             msgs[k].tool_call_id = Some(RequestedCalls[i].id)

\* C40 (as stated): whenever a second model call is issued, the
\* conversation it receives holds, for every tool-call id requested in the
\* first reply, exactly one tool-role message with that id, and no
\* tool-role message with any other id.
C40_EveryRequestAnswered ==
    SecondCallIssued
    => /\ \A i \in 1..Len(RequestedCalls) :
            Answers(Get(request).messages, RequestedCalls[i].id) = 1
       /\ OnlyRequestedIds(Get(request).messages)

\* C40 (amended): whenever a second model call is issued, the conversation
\* it receives holds, for every tool-call id requested in the first reply,
\* at most one tool-role message with that id: exactly one when the
\* sendResultToAI decision of the call was taken and is true, none when it
\* is false or the call was rejected before its invocation; at least one
\* requested id has its message, and no tool-role message has another id.
C40_SentRequestsAnsweredOnce ==
    SecondCallIssued
    => /\ Len(exec) = Len(RequestedCalls)
       /\ \A i \in 1..Len(RequestedCalls) :
            /\ exec[i].call = RequestedCalls[i]
            /\ Answers(Get(request).messages, RequestedCalls[i].id)
                 = IF exec[i].shouldSend = Some(TRUE) THEN 1 ELSE 0
       /\ \E i \in 1..Len(RequestedCalls) :
            Answers(Get(request).messages, RequestedCalls[i].id) = 1
       /\ OnlyRequestedIds(Get(request).messages)

\* C40 witness: the second call is issued for a batch of two calls with the
\* message of the second call only, the policy of the first being false
C40_Witness ==
    /\ SecondCallIssued
    /\ Len(RequestedCalls) = 2
    /\ exec[1].shouldSend = Some(FALSE)
    /\ exec[2].shouldSend = Some(TRUE)
    /\ Answers(Get(request).messages, RequestedCalls[1].id) = 0
    /\ Answers(Get(request).messages, RequestedCalls[2].id) = 1


====
